---- MODULE Spec2Model ----
(***************************************************************************)
(* Model of the iTunes search backend (backend/routes/search.js): the      *)
(* parameter validator, the upstream query builder, the response           *)
(* normalizer and the GET /api/search request handler.                     *)
(*                                                                         *)
(* JavaScript strings are sequences of one-character strings, so that      *)
(* trim(), parseInt() and the country regular expression are computed      *)
(* character by character.  A query value is a tagged record: undefined,   *)
(* a string, or an array of strings (what Express hands over when a        *)
(* parameter is repeated).                                                 *)
(***************************************************************************)
EXTENDS Integers, Sequences, FiniteSets

(***************************************************************************)
(* Bounds of the model.                                                    *)
(***************************************************************************)
\* longest generated limit / country / term string
MaxLen == 3

(***************************************************************************)
(* String literals of the source, as character sequences.                  *)
(***************************************************************************)
S_all == <<"a","l","l">>
S_movie == <<"m","o","v","i","e">>
S_podcast == <<"p","o","d","c","a","s","t">>
S_music == <<"m","u","s","i","c">>
S_musicVideo == <<"m","u","s","i","c","V","i","d","e","o">>
S_audiobook == <<"a","u","d","i","o","b","o","o","k">>
S_shortFilm == <<"s","h","o","r","t","F","i","l","m">>
S_tvShow == <<"t","v","S","h","o","w">>
S_software == <<"s","o","f","t","w","a","r","e">>
S_ebook == <<"e","b","o","o","k">>
S_movieArtist == <<"m","o","v","i","e","A","r","t","i","s","t">>
S_podcastAuthor == <<"p","o","d","c","a","s","t","A","u","t","h","o","r">>
S_musicArtist == <<"m","u","s","i","c","A","r","t","i","s","t">>
S_musicTrack == <<"m","u","s","i","c","T","r","a","c","k">>
S_album == <<"a","l","b","u","m">>
S_mix == <<"m","i","x">>
S_song == <<"s","o","n","g">>
S_audiobookAuthor == <<"a","u","d","i","o","b","o","o","k","A","u","t","h","o","r">>
S_shortFilmArtist == <<"s","h","o","r","t","F","i","l","m","A","r","t","i","s","t">>
S_tvEpisode == <<"t","v","E","p","i","s","o","d","e">>
S_tvSeason == <<"t","v","S","e","a","s","o","n">>
S_iPadSoftware == <<"i","P","a","d","S","o","f","t","w","a","r","e">>
S_macSoftware == <<"m","a","c","S","o","f","t","w","a","r","e">>
S_allArtist == <<"a","l","l","A","r","t","i","s","t">>
S_allTrack == <<"a","l","l","T","r","a","c","k">>
S_50 == <<"5","0">>
S_US == <<"U","S">>
S_Yes == <<"Y","e","s">>

(***************************************************************************)
(* JavaScript values and the string primitives the source uses.            *)
(***************************************************************************)
Undefined == [t |-> "undefined"]
Str(s) == [t |-> "string", s |-> s]
Arr(a) == [t |-> "array", items |-> a]
Null == [t |-> "null"]
Num(n) == [t |-> "number", n |-> n]
Obj(f) == [t |-> "object", f |-> f]

\* JavaScript truthiness of the values above: undefined, null, "" and 0 are
\* falsy, every other string or number and every array or object is truthy.
Truthy(v) == \/ v.t \in {"array", "object"}
             \/ (v.t = "string" /\ v.s # <<>>)
             \/ (v.t = "number" /\ v.n # 0)

\* Array.prototype.join on an array of strings
RECURSIVE Join(_, _)
Join(a, sep) == IF a = <<>> THEN <<>>
                ELSE IF Len(a) = 1 THEN a[1]
                ELSE a[1] \o sep \o Join(Tail(a), sep)

DecDigits == <<"0","1","2","3","4","5","6","7","8","9">>

\* Number.prototype.toString of an integer
RECURSIVE NatToString(_)
NatToString(n) == IF n < 10 THEN <<DecDigits[n + 1]>>
                  ELSE NatToString(n \div 10) \o <<DecDigits[(n % 10) + 1]>>

NumToString(n) == IF n < 0 THEN <<"-">> \o NatToString(0 - n) ELSE NatToString(n)

\* String(v), also what a template literal and URLSearchParams.append do
ToString(v) ==
  CASE v.t = "string" -> v.s
    [] v.t = "array" -> Join(v.items, <<",">>)
    [] v.t = "number" -> NumToString(v.n)
    [] v.t = "null" -> <<"n","u","l","l">>
    [] v.t = "undefined" -> <<"u","n","d","e","f","i","n","e","d">>

\* white space removed by String.prototype.trim and skipped by parseInt
WhiteSpace == {" ", "\t", "\n"}

RECURSIVE TrimStart(_)
TrimStart(s) == IF s # <<>> /\ s[1] \in WhiteSpace THEN TrimStart(Tail(s)) ELSE s

RECURSIVE TrimEnd(_)
TrimEnd(s) == IF s # <<>> /\ s[Len(s)] \in WhiteSpace
              THEN TrimEnd(SubSeq(s, 1, Len(s) - 1)) ELSE s

\* String.prototype.trim
Trim(s) == TrimEnd(TrimStart(s))

HexLower == <<"0","1","2","3","4","5","6","7","8","9","a","b","c","d","e","f">>
HexUpper == <<"0","1","2","3","4","5","6","7","8","9","A","B","C","D","E","F">>

\* value of character c as a digit in the radix, or -1 when it is none
DigitVal(c, radix) ==
  IF radix = 10
  THEN IF \E i \in 1..10 : DecDigits[i] = c
       THEN (CHOOSE i \in 1..10 : DecDigits[i] = c) - 1 ELSE -1
  ELSE IF \E i \in 1..16 : HexLower[i] = c
       THEN (CHOOSE i \in 1..16 : HexLower[i] = c) - 1
       ELSE IF \E i \in 1..16 : HexUpper[i] = c
            THEN (CHOOSE i \in 1..16 : HexUpper[i] = c) - 1 ELSE -1

\* the longest prefix of s made of digits of the radix, as a number;
\* n counts the digits consumed so far, acc is their value
RECURSIVE ParseDigits(_, _, _, _)
ParseDigits(s, radix, n, acc) ==
  IF s # <<>> /\ DigitVal(s[1], radix) >= 0
  THEN ParseDigits(Tail(s), radix, n + 1, acc * radix + DigitVal(s[1], radix))
  ELSE [nan |-> n = 0, val |-> acc]

\* parseInt(string) with no radix argument (ECMAScript parseInt): leading
\* white space is skipped, a sign is read, a 0x / 0X prefix selects radix
\* 16, the longest digit prefix is the value, NaN when there is no digit.
ParseInt(v) ==
  LET s0 == TrimStart(ToString(v))
      neg == s0 # <<>> /\ s0[1] = "-"
      s1 == IF s0 # <<>> /\ s0[1] \in {"+", "-"} THEN Tail(s0) ELSE s0
      hex == Len(s1) >= 2 /\ s1[1] = "0" /\ s1[2] \in {"x", "X"}
      s2 == IF hex THEN SubSeq(s1, 3, Len(s1)) ELSE s1
      r == ParseDigits(s2, IF hex THEN 16 ELSE 10, 0, 0)
  IN [nan |-> r.nan, val |-> IF neg THEN 0 - r.val ELSE r.val]

UpperLetters == {"A","B","C","D","E","F","G","H","I","J","K","L","M",
                 "N","O","P","Q","R","S","T","U","V","W","X","Y","Z"}

\* a thrown TypeError, as the result of an expression
Throw == [t |-> "throw"]

\* v.trim(): a TypeError when v is no string (undefined has no properties,
\* an array has no trim method)
TrimCall(v) == IF v.t = "string" THEN Str(Trim(v.s)) ELSE Throw

\* mutant: the regular expression is not anchored at its end
CountryRegexTest_Unanchored(v) ==
  LET s == ToString(v)
  IN Len(s) >= 2 /\ s[1] \in UpperLetters /\ s[2] \in UpperLetters

\* /^[A-Z]{2}$/.test(v): the argument is converted to a string first
CountryRegexTest(v) ==
  LET s == ToString(v)
  IN Len(s) = 2 /\ s[1] \in UpperLetters /\ s[2] \in UpperLetters

\* Array.prototype.includes(v) on an array of strings: strict equality
Includes(arr, v) == v.t = "string" /\ \E i \in 1..Len(arr) : arr[i] = v.s

(***************************************************************************)
(* Constants of routes/search.js.                                          *)
(***************************************************************************)
\* mutant: one media type is missing from the list
VALID_MEDIA_TYPES_NoEbook ==
  << S_all, S_movie, S_podcast, S_music, S_musicVideo,
     S_audiobook, S_shortFilm, S_tvShow, S_software >>

VALID_MEDIA_TYPES ==
  << S_all, S_movie, S_podcast, S_music, S_musicVideo,
     S_audiobook, S_shortFilm, S_tvShow, S_software, S_ebook >>

\* MEDIA_ENTITIES[key]: the entity list of a media type, or Undefined
MEDIA_ENTITIES(key) ==
  CASE key = S_movie -> Arr(<<S_movieArtist, S_movie>>)
    [] key = S_podcast -> Arr(<<S_podcastAuthor, S_podcast>>)
    [] key = S_music -> Arr(<<S_musicArtist, S_musicTrack, S_album, S_musicVideo, S_mix, S_song>>)
    [] key = S_musicVideo -> Arr(<<S_musicArtist, S_musicVideo>>)
    [] key = S_audiobook -> Arr(<<S_audiobookAuthor, S_audiobook>>)
    [] key = S_shortFilm -> Arr(<<S_shortFilmArtist, S_shortFilm>>)
    [] key = S_tvShow -> Arr(<<S_tvEpisode, S_tvSeason>>)
    [] key = S_software -> Arr(<<S_software, S_iPadSoftware, S_macSoftware>>)
    [] key = S_ebook -> Arr(<<S_ebook>>)
    [] key = S_all -> Arr(<<S_movie, S_album, S_allArtist, S_podcast, S_musicVideo,
                            S_mix, S_audiobook, S_tvSeason, S_allTrack>>)
    [] OTHER -> Undefined

TermError == [text |-> "Search term is required and must be a non-empty string",
              list |-> <<>>]
MediaError == [text |-> "Invalid media type. Valid types: ",
               list |-> Join(VALID_MEDIA_TYPES, <<",", " ">>)]
LimitError == [text |-> "Limit must be a number between 1 and 200", list |-> <<>>]
CountryError == [text |-> "Country must be a valid 2-letter country code (e.g., US, CA, GB)",
                 list |-> <<>>]

(***************************************************************************)
(* Parameter validator.                                                    *)
(***************************************************************************)
\* mutant: the typeof test is missing, so trim() is called on an array
TermRuleThrows_NoTypeofTest(params) ==
  /\ Truthy(params.term)
  /\ TrimCall(params.term).t = "throw"

\* the || chain of the term check stops at its first true operand, so
\* trim() is called only on a truthy string
TermRuleThrows(params) ==
  /\ Truthy(params.term)
  /\ params.term.t = "string"
  /\ TrimCall(params.term).t = "throw"

\* mutant: the term is not trimmed before its length is tested
TermRuleFails_NoTrim(params) ==
  \/ ~Truthy(params.term)
  \/ params.term.t # "string"
  \/ Len(params.term.s) = 0

TermRuleFails(params) ==
  \/ ~Truthy(params.term)
  \/ params.term.t # "string"
  \/ Len(TrimCall(params.term).s) = 0

MediaRuleFails(params) ==
  Truthy(params.media) /\ ~Includes(VALID_MEDIA_TYPES, params.media)

\* mutant: the upper bound is off by one
LimitRuleFails_OffByOne(params) ==
  /\ Truthy(params.limit)
  /\ LET limit == ParseInt(params.limit)
     IN limit.nan \/ limit.val < 1 \/ limit.val >= 200

LimitRuleFails(params) ==
  /\ Truthy(params.limit)
  /\ LET limit == ParseInt(params.limit)
     IN limit.nan \/ limit.val < 1 \/ limit.val > 200

CountryRuleFails(params) ==
  Truthy(params.country) /\ ~CountryRegexTest(params.country)

\* mutant: the validator stops at the first violated rule
validateSearchParams_FirstOnly(params) ==
  LET errors == IF TermRuleFails(params) THEN <<TermError>>
                ELSE IF MediaRuleFails(params) THEN <<MediaError>>
                ELSE IF LimitRuleFails(params) THEN <<LimitError>>
                ELSE IF CountryRuleFails(params) THEN <<CountryError>>
                ELSE <<>>
  IN [t |-> "result", isValid |-> Len(errors) = 0, errors |-> errors]

validateSearchParams(params) ==
  IF TermRuleThrows(params) THEN Throw ELSE
  LET errors == (IF TermRuleFails(params) THEN <<TermError>> ELSE <<>>)
             \o (IF MediaRuleFails(params) THEN <<MediaError>> ELSE <<>>)
             \o (IF LimitRuleFails(params) THEN <<LimitError>> ELSE <<>>)
             \o (IF CountryRuleFails(params) THEN <<CountryError>> ELSE <<>>)
  IN [t |-> "result", isValid |-> Len(errors) = 0, errors |-> errors]

(***************************************************************************)
(* Upstream query builder.                                                 *)
(***************************************************************************)
ITUNES_SEARCH_ENDPOINT == "https://itunes.apple.com/search"

\* a || b
OrElse(a, b) == IF Truthy(a) THEN a ELSE b

\* URLSearchParams.append(name, value): the value is converted to a string
Param(name, value) == [k |-> name, v |-> ToString(value)]

LowerLetters == {"a","b","c","d","e","f","g","h","i","j","k","l","m",
                 "n","o","p","q","r","s","t","u","v","w","x","y","z"}

\* the characters URLSearchParams.toString leaves as they are
FormSafe == UpperLetters \cup LowerLetters
            \cup {DecDigits[i] : i \in 1..10} \cup {"*", "-", ".", "_"}

\* application/x-www-form-urlencoded form of one character: a space is
\* "+", every other unsafe character is percent-encoded
FormEncodeChar(c) ==
  CASE c \in FormSafe -> <<c>>
    [] c = " " -> <<"+">>
    [] c = "\t" -> <<"%", "0", "9">>
    [] c = "\n" -> <<"%", "0", "A">>
    [] c = "%" -> <<"%", "2", "5">>
    [] c = "&" -> <<"%", "2", "6">>
    [] c = "+" -> <<"%", "2", "B">>
    [] c = "," -> <<"%", "2", "C">>
    [] c = "/" -> <<"%", "2", "F">>
    [] c = "=" -> <<"%", "3", "D">>

RECURSIVE FormEncode(_)
FormEncode(s) ==
  IF s = <<>> THEN <<>> ELSE FormEncodeChar(s[1]) \o FormEncode(Tail(s))

S_term == <<"t","e","r","m">>
S_media == <<"m","e","d","i","a">>
S_limit == <<"l","i","m","i","t">>
S_country == <<"c","o","u","n","t","r","y">>
S_explicit == <<"e","x","p","l","i","c","i","t">>
S_entity == <<"e","n","t","i","t","y">>

\* the name of a parameter as characters
ParamName(k) ==
  CASE k = "term" -> S_term [] k = "media" -> S_media [] k = "limit" -> S_limit
    [] k = "country" -> S_country [] k = "explicit" -> S_explicit
    [] k = "entity" -> S_entity

\* URLSearchParams.toString: name=value pairs in the order they were
\* appended, joined by "&"
SearchParamsToString(searchParams) ==
  Join([i \in 1..Len(searchParams) |->
          FormEncode(ParamName(searchParams[i].k)) \o <<"=">>
          \o FormEncode(searchParams[i].v)],
       <<"&">>)

\* mutant: the entity is looked up in the list of 'all' whatever the media
EntityParams_AlwaysAll(params) ==
  IF Truthy(params.entity)
  THEN LET found == MEDIA_ENTITIES(S_all)
           validEntities == IF found.t = "array" THEN found.items ELSE <<>>
       IN IF Includes(validEntities, params.entity)
          THEN <<Param("entity", params.entity)>> ELSE <<>>
  ELSE <<>>

EntityParams(params) ==
  IF Truthy(params.entity)
  THEN LET mediaType == OrElse(params.media, Str(S_all))
           found == MEDIA_ENTITIES(ToString(mediaType))
           validEntities == IF found.t = "array" THEN found.items ELSE <<>>
       IN IF Includes(validEntities, params.entity)
          THEN <<Param("entity", params.entity)>> ELSE <<>>
  ELSE <<>>

\* the URL as endpoint, appended parameters and serialised query string
Url(searchParams) ==
  [t |-> "url",
   endpoint |-> ITUNES_SEARCH_ENDPOINT,
   searchParams |-> searchParams,
   search |-> SearchParamsToString(searchParams)]

\* mutant: limit is appended before media
buildItunesUrl_Reordered(params) ==
  IF TrimCall(params.term).t = "throw" THEN Throw ELSE
  Url(<< Param("term", TrimCall(params.term)),
         Param("limit", OrElse(params.limit, Str(S_50))),
         Param("media", OrElse(params.media, Str(S_all))),
         Param("country", OrElse(params.country, Str(S_US))),
         Param("explicit", OrElse(params.explicit, Str(S_Yes))) >>
      \o EntityParams(params))

buildItunesUrl(params) ==
  IF TrimCall(params.term).t = "throw" THEN Throw ELSE
  Url(<< Param("term", TrimCall(params.term)),
         Param("media", OrElse(params.media, Str(S_all))),
         Param("limit", OrElse(params.limit, Str(S_50))),
         Param("country", OrElse(params.country, Str(S_US))),
         Param("explicit", OrElse(params.explicit, Str(S_Yes))) >>
      \o EntityParams(params))

(***************************************************************************)
(* Response normalizer.                                                    *)
(***************************************************************************)
S_100x100 == <<"1","0","0","x","1","0","0">>
S_60x60 == <<"6","0","x","6","0">>
S_30x30 == <<"3","0","x","3","0">>
S_300x300 == <<"3","0","0","x","3","0","0">>
S_NA == <<"N","/","A">>
S_unknown == <<"u","n","k","n","o","w","n">>
S_Unknown == <<"U","n","k","n","o","w","n">>
S_InvalidDate == <<"I","n","v","a","l","i","d"," ","D","a","t","e">>

\* item.key: undefined when the property is missing; reading a property of
\* null or undefined throws
Get(o, key) ==
  CASE o.t \in {"null", "undefined"} -> Throw
    [] o.t = "object" -> IF key \in DOMAIN o.f THEN o.f[key] ELSE Undefined
    [] OTHER -> Undefined

\* index of the first occurrence of pat in s, 0 when there is none
IndexOf(s, pat) ==
  LET hits == {i \in 1..(Len(s) - Len(pat) + 1) : SubSeq(s, i, i + Len(pat) - 1) = pat}
  IN IF hits = {} THEN 0 ELSE CHOOSE i \in hits : \A j \in hits : i <= j

\* String.prototype.replace(pat, to) with a string pattern: the first
\* occurrence only
ReplaceFirst(s, pat, to) ==
  LET i == IndexOf(s, pat)
  IN IF i = 0 THEN s
     ELSE SubSeq(s, 1, i - 1) \o to \o SubSeq(s, i + Len(pat), Len(s))

\* v?.replace(pat, to): undefined for undefined and null, the replaced
\* string for a string, a TypeError for any other value (no replace method)
OptReplace(v, pat, to) ==
  CASE v.t \in {"undefined", "null"} -> Undefined
    [] v.t = "string" -> Str(ReplaceFirst(v.s, pat, to))
    [] OTHER -> Throw

\* a || b where a may have thrown
OrChain(a, b) == IF a.t = "throw" THEN a ELSE IF Truthy(a) THEN a ELSE b

\* mutant: the 60x60 field is tried before the 100x100 field
ArtworkUrl_SmallFirst(item) ==
  OrChain(OptReplace(Get(item, "artworkUrl60"), S_60x60, S_300x300),
    OrChain(OptReplace(Get(item, "artworkUrl100"), S_100x100, S_300x300),
      OrChain(OptReplace(Get(item, "artworkUrl30"), S_30x30, S_300x300),
        Get(item, "artworkUrl100"))))

ArtworkUrl(item) ==
  OrChain(OptReplace(Get(item, "artworkUrl100"), S_100x100, S_300x300),
    OrChain(OptReplace(Get(item, "artworkUrl60"), S_60x60, S_300x300),
      OrChain(OptReplace(Get(item, "artworkUrl30"), S_30x30, S_300x300),
        Get(item, "artworkUrl100"))))

IsDigit(c) == DigitVal(c, 10) >= 0

\* the date of an ISO date string YYYY-MM-DD, or NaN
DateParse(s) ==
  IF /\ Len(s) = 10
     /\ \A i \in {1, 2, 3, 4, 6, 7, 9, 10} : IsDigit(s[i])
     /\ s[5] = "-" /\ s[8] = "-"
  THEN LET y == ParseDigits(SubSeq(s, 1, 4), 10, 0, 0).val
           m == ParseDigits(SubSeq(s, 6, 7), 10, 0, 0).val
           d == ParseDigits(SubSeq(s, 9, 10), 10, 0, 0).val
       IN IF m \in 1..12 /\ d \in 1..31
          THEN [nan |-> FALSE, y |-> y, m |-> m, d |-> d]
          ELSE [nan |-> TRUE]
  ELSE [nan |-> TRUE]

\* new Date(v).toLocaleDateString() (en-US): an unparseable string does
\* not throw, it formats as "Invalid Date"
ToLocaleDateString(v) ==
  LET date == DateParse(ToString(v))
  IN IF date.nan THEN Str(S_InvalidDate)
     ELSE Str(NatToString(date.m) \o <<"/">> \o NatToString(date.d)
              \o <<"/">> \o NatToString(date.y))

ReleaseDate(item) ==
  IF Truthy(Get(item, "releaseDate"))
  THEN ToLocaleDateString(Get(item, "releaseDate")) ELSE Null

FormattedPrice(item) ==
  IF Truthy(Get(item, "trackPrice")) THEN Str(ToString(Get(item, "trackPrice")))
  ELSE IF Truthy(Get(item, "collectionPrice"))
       THEN Str(ToString(Get(item, "collectionPrice")))
       ELSE Str(S_NA)

MediaType(item) ==
  OrChain(Get(item, "wrapperType"), OrChain(Get(item, "kind"), Str(S_unknown)))

\* v?.[0]
OptFirst(v) ==
  CASE v.t = "array" -> IF v.items = <<>> THEN Undefined ELSE Str(v.items[1])
    [] v.t = "string" -> IF v.s = <<>> THEN Undefined ELSE Str(<<v.s[1]>>)
    [] OTHER -> Undefined

PrimaryGenre(item) ==
  OrChain(Get(item, "primaryGenreName"),
    OrChain(OptFirst(Get(item, "genres")), Str(S_Unknown)))

\* mutant: no time-based fallback
UniqueId_NoFallback(item, now) ==
  OrChain(Get(item, "trackId"),
    OrChain(Get(item, "collectionId"), Get(item, "artistId")))

\* now is the reading of Date.now() taken for this item
UniqueId(item, now) ==
  OrChain(Get(item, "trackId"),
    OrChain(Get(item, "collectionId"),
      OrChain(Get(item, "artistId"), Num(now))))

DerivedKeys == {"artworkUrl", "releaseDate", "formattedPrice", "mediaType",
                "primaryGenre", "uniqueId"}

\* the callback of results.map: the raw item's own fields, overridden by
\* the six derived ones; a TypeError when the item is null or undefined
\* or an artwork field has no replace method
EnhanceItem(item, now) ==
  IF item.t \in {"null", "undefined"} \/ ArtworkUrl(item).t = "throw" THEN Throw
  ELSE LET own == IF item.t = "object" THEN item.f ELSE <<>>
           derived == [artworkUrl |-> ArtworkUrl(item),
                       releaseDate |-> ReleaseDate(item),
                       formattedPrice |-> FormattedPrice(item),
                       mediaType |-> MediaType(item),
                       primaryGenre |-> PrimaryGenre(item),
                       uniqueId |-> UniqueId(item, now)]
       IN Obj([k \in (DOMAIN own) \cup DerivedKeys |->
                 IF k \in DerivedKeys THEN derived[k] ELSE own[k]])

\* mutant: the count is taken from the results
ResultCount_Recounted(data) ==
  IF Get(data, "results").t = "array"
  THEN Num(Len(Get(data, "results").items)) ELSE Num(0)

\* data.resultCount || 0
ResultCount(data) == OrChain(Get(data, "resultCount"), Num(0))

\* mutant: the items come out in reverse order
processItunesResponse_Reversed(data, times, at) ==
  IF Get(data, "results").t = "throw" THEN Throw
  ELSE LET results == OrChain(Get(data, "results"), Arr(<<>>))
       IN IF results.t # "array" THEN Throw
          ELSE LET n == Len(results.items)
                   enhanced == [i \in 1..n |->
                                  EnhanceItem(results.items[n + 1 - i], times[i])]
               IN IF \E i \in 1..n : enhanced[i].t = "throw" THEN Throw
                  ELSE [t |-> "ok",
                        resultCount |-> ResultCount(data),
                        results |-> enhanced,
                        searchInfo |-> [totalResults |-> ResultCount(data),
                                        hasResults |-> ResultCount(data).n > 0,
                                        searchedAt |-> at]]

\* times[i] is the reading of Date.now() while item i is mapped, at is
\* the reading for searchedAt
processItunesResponse(data, times, at) ==
  IF Get(data, "results").t = "throw" THEN Throw
  ELSE LET results == OrChain(Get(data, "results"), Arr(<<>>))
       IN IF results.t # "array" THEN Throw
          ELSE LET enhanced == [i \in 1..Len(results.items) |->
                                  EnhanceItem(results.items[i], times[i])]
               IN IF \E i \in 1..Len(enhanced) : enhanced[i].t = "throw" THEN Throw
                  ELSE [t |-> "ok",
                        resultCount |-> ResultCount(data),
                        results |-> enhanced,
                        searchInfo |-> [totalResults |-> ResultCount(data),
                                        hasResults |-> ResultCount(data).n > 0,
                                        searchedAt |-> at]]

(***************************************************************************)
(* GET /api/search request handler.                                        *)
(***************************************************************************)
VARIABLES
  nodeEnv,        \* process.env.NODE_ENV
  pc,             \* where the request in hand is
  query,          \* req.query of the request in hand
  validation,     \* result of validateSearchParams
  itunesUrl,      \* result of buildItunesUrl
  upstreamCalls,  \* axios.get calls issued for the request in hand
  upstream,       \* the axios call: none, pending, resolved or rejected
  response,       \* what res.status().json() sent, None before that
  sent,           \* number of responses sent for the request in hand
  path,           \* states the request in hand went through
  inflight,       \* the requests in flight when several are served at once
  auth,           \* a request on its way through authenticateToken and searchLimiter
  lookup,         \* the request in hand of GET /api/search/lookup/:itemId
  ui              \* the state of the React App and of its SearchBar

\* the request in hand when requests are served one after the other
handlerVars == <<pc, query, validation, itunesUrl, upstreamCalls, upstream,
                 response, sent, path>>

\* the state outside the one-request-at-a-time handler
otherVars == <<inflight, auth, lookup, ui>>

vars == <<nodeEnv, pc, query, validation, itunesUrl, upstreamCalls, upstream,
          response, sent, path, inflight, auth, lookup, ui>>

None == [t |-> "none"]

\* requests the server holds at once
MaxRequests == 2
Requests == 1..MaxRequests

\* no request is on its way through the middleware; hits is what the
\* store of searchLimiter has counted in the current window
IdleAuth(hits) ==
  [pc |-> "Idle", header |-> None, token |-> None, user |-> None, nextCalls |-> 0,
   sent |-> 0, response |-> None, reached |-> {}, hits |-> hits]

\* useState of App (searchResults, favorites, loading, error, searchTerm,
\* mediaType) and of SearchBar (barTerm, barMedia) after the first render;
\* pending holds the searchItunes calls that have not settled, last what the
\* latest one settled with, lastOp the latest favorites operation
InitialUi ==
  [searchResults |-> <<>>, favorites |-> <<>>, loading |-> FALSE, error |-> [t |-> "null"],
   searchTerm |-> <<>>, mediaType |-> <<"a","l","l">>, barTerm |-> <<>>,
   barMedia |-> <<"a","l","l">>, pending |-> <<>>, last |-> None, lastOp |-> None]

\* the lookup handler has no request in hand
IdleLookup ==
  [pc |-> "Idle", itemId |-> None, lookupUrl |-> None, upstreamCalls |-> 0,
   upstream |-> None, response |-> None, sent |-> 0]

\* the locals of one invocation of the handler
IdleRequest ==
  [pc |-> "Idle", query |-> None, validation |-> None, itunesUrl |-> None,
   upstream |-> None, response |-> None]

\* Date.now() readings, counted from the start of the handler
MaxTick == 1
Times == 0..MaxTick

\* a TypeError thrown inside the try block, as the catch block sees it:
\* no code, no response
TypeError == [code |-> "none", status |-> 0, message |-> "TypeError"]

InvalidResponse(v) ==
  [status |-> 400,
   error |-> "Invalid Parameters",
   message |-> "One or more search parameters are invalid",
   errors |-> v.errors,
   validMediaTypes |-> VALID_MEDIA_TYPES]

\* parseInt(searchParams.limit) || 50
EchoLimit(limit) ==
  LET p == ParseInt(limit) IN IF p.nan \/ p.val = 0 THEN 50 ELSE p.val

SuccessResponse(params, processedData, responseTime, searchedAt) ==
  [status |-> 200,
   success |-> TRUE,
   data |-> processedData,
   searchParams |-> [term |-> params.term,
                     media |-> OrElse(params.media, Str(S_all)),
                     limit |-> EchoLimit(params.limit),
                     country |-> OrElse(params.country, Str(S_US))],
   metadata |-> [responseTime |-> responseTime,
                 searchedAt |-> searchedAt,
                 apiVersion |-> "1.0"]]

\* mutant: a 403 is not told from the other 4xx answers
ErrorResponse_No403(error, env) ==
  IF error.code \in {"ECONNABORTED", "ETIMEDOUT"}
  THEN [status |-> 408, error |-> "Request Timeout",
        message |-> "iTunes API request timed out. Please try again."]
  ELSE IF error.status >= 400 /\ error.status < 500
  THEN [status |-> 400, error |-> "Bad Request",
        message |-> "Invalid request to iTunes API. Please check your search parameters."]
  ELSE IF env = "development"
  THEN [status |-> 500, error |-> "Search Failed",
        message |-> "Unable to complete search request. Please try again later.",
        details |-> error.message]
  ELSE [status |-> 500, error |-> "Search Failed",
        message |-> "Unable to complete search request. Please try again later."]

\* mutant: only a 400 answer is taken for a client error
ErrorResponse_Only400(error, env) ==
  IF error.code \in {"ECONNABORTED", "ETIMEDOUT"}
  THEN [status |-> 408, error |-> "Request Timeout",
        message |-> "iTunes API request timed out. Please try again."]
  ELSE IF error.status = 403
  THEN [status |-> 503, error |-> "Service Unavailable",
        message |-> "iTunes API is currently unavailable. Please try again later."]
  ELSE IF error.status = 400
  THEN [status |-> 400, error |-> "Bad Request",
        message |-> "Invalid request to iTunes API. Please check your search parameters."]
  ELSE IF env = "development"
  THEN [status |-> 500, error |-> "Search Failed",
        message |-> "Unable to complete search request. Please try again later.",
        details |-> error.message]
  ELSE [status |-> 500, error |-> "Search Failed",
        message |-> "Unable to complete search request. Please try again later."]

\* mutant: the detail is left out in production only
ErrorResponse_DetailsUnlessProduction(error, env) ==
  IF error.code \in {"ECONNABORTED", "ETIMEDOUT"}
  THEN [status |-> 408, error |-> "Request Timeout",
        message |-> "iTunes API request timed out. Please try again."]
  ELSE IF error.status = 403
  THEN [status |-> 503, error |-> "Service Unavailable",
        message |-> "iTunes API is currently unavailable. Please try again later."]
  ELSE IF error.status >= 400 /\ error.status < 500
  THEN [status |-> 400, error |-> "Bad Request",
        message |-> "Invalid request to iTunes API. Please check your search parameters."]
  ELSE IF env # "production"
  THEN [status |-> 500, error |-> "Search Failed",
        message |-> "Unable to complete search request. Please try again later.",
        details |-> error.message]
  ELSE [status |-> 500, error |-> "Search Failed",
        message |-> "Unable to complete search request. Please try again later."]

\* mutant: only ECONNABORTED is taken for a time-out
ErrorResponse_AbortedOnly(error, env) ==
  IF error.code = "ECONNABORTED"
  THEN [status |-> 408, error |-> "Request Timeout",
        message |-> "iTunes API request timed out. Please try again."]
  ELSE IF error.status = 403
  THEN [status |-> 503, error |-> "Service Unavailable",
        message |-> "iTunes API is currently unavailable. Please try again later."]
  ELSE IF error.status >= 400 /\ error.status < 500
  THEN [status |-> 400, error |-> "Bad Request",
        message |-> "Invalid request to iTunes API. Please check your search parameters."]
  ELSE IF env = "development"
  THEN [status |-> 500, error |-> "Search Failed",
        message |-> "Unable to complete search request. Please try again later.",
        details |-> error.message]
  ELSE [status |-> 500, error |-> "Search Failed",
        message |-> "Unable to complete search request. Please try again later."]

\* the catch block: error.code, error.response?.status (0 when the error
\* carries no response) and error.message decide the response
ErrorResponse(error, env) ==
  IF error.code \in {"ECONNABORTED", "ETIMEDOUT"}
  THEN [status |-> 408, error |-> "Request Timeout",
        message |-> "iTunes API request timed out. Please try again."]
  ELSE IF error.status = 403
  THEN [status |-> 503, error |-> "Service Unavailable",
        message |-> "iTunes API is currently unavailable. Please try again later."]
  ELSE IF error.status >= 400 /\ error.status < 500
  THEN [status |-> 400, error |-> "Bad Request",
        message |-> "Invalid request to iTunes API. Please check your search parameters."]
  ELSE IF env = "development"
  THEN [status |-> 500, error |-> "Search Failed",
        message |-> "Unable to complete search request. Please try again later.",
        details |-> error.message]
  ELSE [status |-> 500, error |-> "Search Failed",
        message |-> "Unable to complete search request. Please try again later."]

(***************************************************************************)
(* Requests, upstream answers and upstream failures the model draws from.  *)
(***************************************************************************)
\* every string over chars of length at most n
Strings(chars, n) == UNION {[1..k -> chars] : k \in 0..n}

Query(term, media, limit, country, entity, explicit) ==
  [term |-> term, media |-> media, limit |-> limit, country |-> country,
   entity |-> entity, explicit |-> explicit]

S_a == <<"a">>
S_bogus == <<"b","o","g","u","s">>
S_Music == <<"M","u","s","i","c">>
S_No == <<"N","o">>

\* VALIDATION.SEARCH_TERM.MAX_LENGTH of the frontend constants
MAX_LENGTH == 100

\* a term of n letters
LongTerm(n) == [i \in 1..n |-> "a"]

TermChars == {"a", " ", "\t"}
LimitChars == {"0", "1", "2", "9", "a", "x", ".", " ", "-"}
CountryChars == {"U", "S", "s", "1", " "}

AllEntities ==
  {S_movieArtist, S_movie, S_podcastAuthor, S_podcast, S_musicArtist,
   S_musicTrack, S_album, S_musicVideo, S_mix, S_song, S_audiobookAuthor,
   S_audiobook, S_shortFilmArtist, S_shortFilm, S_tvEpisode, S_tvSeason,
   S_software, S_iPadSoftware, S_macSoftware, S_ebook, S_allArtist, S_allTrack}

MediaTypeSet == {VALID_MEDIA_TYPES[i] : i \in 1..Len(VALID_MEDIA_TYPES)}

\* one parameter varies over every short string, the others are fixed
TermQueries ==
  {Query(t, Undefined, Undefined, Undefined, Undefined, Undefined) :
     t \in {Str(s) : s \in Strings(TermChars, MaxLen)}
           \cup {Undefined, Arr(<<>>), Arr(<<S_a>>),
                 Str(LongTerm(MAX_LENGTH)), Str(LongTerm(MAX_LENGTH + 1))}}

LimitQueries ==
  {Query(Str(S_a), Undefined, l, Undefined, Undefined, Undefined) :
     l \in {Str(s) : s \in Strings(LimitChars, MaxLen)}
           \cup {Undefined, Arr(<<<<"5">>>>), Arr(<<<<"5">>, <<"6">>>>)}}

CountryQueries ==
  {Query(Str(S_a), Undefined, Undefined, c, Undefined, Undefined) :
     c \in {Str(s) : s \in Strings(CountryChars, MaxLen)}
           \cup {Undefined, Arr(<<S_US>>)}}

MediaEntityQueries ==
  {Query(Str(S_a), m, Undefined, Undefined, e, x) :
     m \in {Str(s) : s \in MediaTypeSet \cup AllEntities \cup {<<>>, S_bogus, S_Music}}
           \cup {Undefined, Arr(<<S_music>>)},
     e \in {Str(s) : s \in AllEntities \cup {<<>>, S_bogus}} \cup {Undefined},
     x \in {Undefined, Str(S_No)}}

\* every combination of a passing and a failing value of the four rules
CombinedQueries ==
  {Query(t, m, l, c, Undefined, Undefined) :
     t \in {Undefined, Str(<<>>), Str(<<" ">>), Str(S_a), Str(<<" ", "a", " ">>)},
     m \in {Undefined, Str(<<>>), Str(S_music), Str(S_bogus)},
     l \in {Undefined, Str(<<>>), Str(<<"0">>), Str(<<"5">>), Str(<<"a">>)},
     c \in {Undefined, Str(<<>>), Str(S_US), Str(<<"u", "s">>)}}

S_art100 == <<"h","/","1","0","0","x","1","0","0","b","b">>
S_art60 == <<"h","/","6","0","x","6","0","b","b">>
S_date == <<"2","0","1","1","-","0","1","-","2","4">>
S_X == <<"X">>

Items ==
  { Obj([trackId |-> Num(42), trackName |-> Str(S_X), artworkUrl100 |-> Str(S_art100)]),
    Obj([collectionId |-> Num(7), artworkUrl60 |-> Str(S_art60),
         releaseDate |-> Str(S_date), trackPrice |-> Num(0),
         collectionPrice |-> Num(9), kind |-> Str(S_song)]),
    Obj([artistName |-> Str(S_X), releaseDate |-> Str(S_bogus)]),
    Obj([trackId |-> Num(43), artworkUrl100 |-> Num(5)]),
    Null }

\* response.data of a 2xx answer: a parsed object, the unparsed text of a
\* body that is not JSON, or null
Bodies ==
  { Null, Str(S_bogus), Obj(<<>>), Obj([resultCount |-> Num(0), results |-> Arr(<<>>)]),
    Obj([resultCount |-> Num(1), results |-> Str(S_bogus)]) }
  \cup {Obj([resultCount |-> Num(1), results |-> Arr(<<i>>)]) : i \in Items}
  \cup {Obj([resultCount |-> Num(2), results |-> Arr(<<i, i>>)]) :
          i \in {Obj([artistName |-> Str(S_X)])}}

\* what axios.get rejects with: error.code and error.response.status
\* (0 when there is no response)
UpstreamErrors ==
  { [code |-> "ECONNABORTED", status |-> 0, message |-> "timeout of 10000ms exceeded"],
    [code |-> "ECONNABORTED", status |-> 0, message |-> "Request aborted"],
    [code |-> "ETIMEDOUT", status |-> 0, message |-> "connect ETIMEDOUT"],
    [code |-> "ECONNREFUSED", status |-> 0, message |-> "connect ECONNREFUSED"],
    [code |-> "ERR_BAD_REQUEST", status |-> 403, message |-> "Request failed with status code 403"],
    [code |-> "ERR_BAD_REQUEST", status |-> 400, message |-> "Request failed with status code 400"],
    [code |-> "ERR_BAD_REQUEST", status |-> 404, message |-> "Request failed with status code 404"],
    [code |-> "ERR_BAD_REQUEST", status |-> 429, message |-> "Request failed with status code 429"],
    [code |-> "ERR_BAD_RESPONSE", status |-> 500, message |-> "Request failed with status code 500"],
    [code |-> "ERR_BAD_RESPONSE", status |-> 503, message |-> "Request failed with status code 503"] }

NodeEnvs == {"development", "production", "unset"}

\* non-decreasing clock readings: one per item, then the later ones
ClockReadings(n) ==
  {r \in [1..n -> Times] : \A i \in 1..n, j \in 1..n : i <= j => r[i] <= r[j]}

(***************************************************************************)
(* The request state machine.                                              *)
(***************************************************************************)
Terminal == {"Invalid", "UpstreamError", "Responding"}

Init ==
  /\ nodeEnv \in NodeEnvs
  /\ pc = "Idle"
  /\ query = None
  /\ validation = None
  /\ itunesUrl = None
  /\ upstreamCalls = 0
  /\ upstream = None
  /\ response = None
  /\ sent = 0
  /\ path = <<>>
  /\ inflight = [r \in Requests |-> IdleRequest]
  /\ auth = IdleAuth(0)
  /\ lookup = IdleLookup
  /\ ui = InitialUi

\* a request passes authenticateToken and searchLimiter and reaches the handler
Receive(qs) ==
  /\ pc = "Idle"
  /\ pc' = "Received"
  /\ \E q \in qs : query' = q
  /\ path' = <<"Received">>
  /\ UNCHANGED <<nodeEnv, validation, itunesUrl, upstreamCalls, upstream, response, sent>>
  /\ UNCHANGED otherVars

\* the handler starts: validateSearchParams(searchParams)
Validate ==
  /\ pc = "Received"
  /\ validation' = validateSearchParams(query)
  /\ IF validation'.t = "throw"
     THEN /\ response' = ErrorResponse(TypeError, nodeEnv)
          /\ sent' = sent + 1
          /\ pc' = "UpstreamError"
          /\ path' = Append(path, "UpstreamError")
     ELSE /\ pc' = "Validating"
          /\ path' = Append(path, "Validating")
          /\ UNCHANGED <<response, sent>>
  /\ UNCHANGED <<nodeEnv, query, itunesUrl, upstreamCalls, upstream>>
  /\ UNCHANGED otherVars

\* the validation failed: 400 with the error list, and return
RespondInvalid ==
  /\ pc = "Validating"
  /\ ~validation.isValid
  /\ response' = InvalidResponse(validation)
  /\ sent' = sent + 1
  /\ pc' = "Invalid"
  /\ path' = Append(path, "Invalid")
  /\ UNCHANGED <<nodeEnv, query, validation, itunesUrl, upstreamCalls, upstream>>
  /\ UNCHANGED otherVars

\* mutant: the handler does not return after the validation failed
Build_NoValidityCheck ==
  /\ pc = "Validating"
  /\ itunesUrl' = buildItunesUrl(query)
  /\ IF itunesUrl'.t = "throw"
     THEN /\ response' = ErrorResponse(TypeError, nodeEnv)
          /\ sent' = sent + 1
          /\ pc' = "UpstreamError"
          /\ path' = Append(path, "UpstreamError")
     ELSE /\ pc' = "Building"
          /\ path' = Append(path, "Building")
          /\ UNCHANGED <<response, sent>>
  /\ UNCHANGED <<nodeEnv, query, validation, upstreamCalls, upstream>>
  /\ UNCHANGED otherVars

\* the request passed the validation check: buildItunesUrl(searchParams)
Build ==
  /\ pc = "Validating"
  /\ validation.isValid
  /\ itunesUrl' = buildItunesUrl(query)
  /\ IF itunesUrl'.t = "throw"
     THEN /\ response' = ErrorResponse(TypeError, nodeEnv)
          /\ sent' = sent + 1
          /\ pc' = "UpstreamError"
          /\ path' = Append(path, "UpstreamError")
     ELSE /\ pc' = "Building"
          /\ path' = Append(path, "Building")
          /\ UNCHANGED <<response, sent>>
  /\ UNCHANGED <<nodeEnv, query, validation, upstreamCalls, upstream>>
  /\ UNCHANGED otherVars

\* axios.get(itunesUrl, ...) is issued and the handler awaits it
Fetch ==
  /\ pc = "Building"
  /\ upstreamCalls' = upstreamCalls + 1
  /\ upstream' = [t |-> "pending", url |-> itunesUrl]
  /\ pc' = "Fetching"
  /\ path' = Append(path, "Fetching")
  /\ UNCHANGED <<nodeEnv, query, validation, itunesUrl, response, sent>>
  /\ UNCHANGED otherVars

\* the call resolves with a 2xx answer whose body is one of bodies
UpstreamResolve(bodies) ==
  /\ pc = "Fetching"
  /\ \E data \in bodies : upstream' = [t |-> "resolved", data |-> data]
  /\ pc' = "Normalizing"
  /\ path' = Append(path, "Normalizing")
  /\ UNCHANGED <<nodeEnv, query, validation, itunesUrl, upstreamCalls, response, sent>>
  /\ UNCHANGED otherVars

\* mutant: the failure of the call is swallowed, nothing is sent
UpstreamReject_Silent(errors) ==
  /\ pc = "Fetching"
  /\ \E error \in errors : upstream' = [t |-> "rejected", error |-> error]
  /\ pc' = "UpstreamError"
  /\ path' = Append(path, "UpstreamError")
  /\ UNCHANGED <<nodeEnv, query, validation, itunesUrl, upstreamCalls, response, sent>>
  /\ UNCHANGED otherVars

\* mutant: a failed call is issued again
UpstreamReject_Retry(errors) ==
  /\ pc = "Fetching"
  /\ \E error \in errors : upstream' = [t |-> "rejected", error |-> error]
  /\ pc' = "Building"
  /\ path' = Append(path, "Building")
  /\ UNCHANGED <<nodeEnv, query, validation, itunesUrl, upstreamCalls, response, sent>>
  /\ UNCHANGED otherVars

\* the call rejects (time-out, connection failure, non-2xx answer) and the
\* catch block maps the error
UpstreamReject(errors) ==
  /\ pc = "Fetching"
  /\ \E error \in errors :
       /\ upstream' = [t |-> "rejected", error |-> error]
       /\ response' = ErrorResponse(error, nodeEnv)
  /\ sent' = sent + 1
  /\ pc' = "UpstreamError"
  /\ path' = Append(path, "UpstreamError")
  /\ UNCHANGED <<nodeEnv, query, validation, itunesUrl, upstreamCalls>>
  /\ UNCHANGED otherVars

\* processItunesResponse, then res.json; a TypeError thrown by the
\* normalizer lands in the same catch block
Normalize ==
  /\ pc = "Normalizing"
  /\ LET n == IF Get(upstream.data, "results").t = "array"
              THEN Len(Get(upstream.data, "results").items) ELSE 0
     IN \E r \in ClockReadings(n + 3) :
          LET processedData ==
                processItunesResponse(upstream.data, SubSeq(r, 1, n), r[n + 1])
          IN IF processedData.t = "throw"
             THEN /\ response' = ErrorResponse(TypeError, nodeEnv)
                  /\ pc' = "UpstreamError"
                  /\ path' = Append(path, "UpstreamError")
             ELSE /\ response' = SuccessResponse(query, processedData, r[n + 2], r[n + 3])
                  /\ pc' = "Responding"
                  /\ path' = Append(path, "Responding")
  /\ sent' = sent + 1
  /\ UNCHANGED <<nodeEnv, query, validation, itunesUrl, upstreamCalls, upstream>>
  /\ UNCHANGED otherVars

\* the handler has returned; the server waits for the next request
Complete ==
  /\ pc \in Terminal
  /\ pc' = "Idle"
  /\ query' = None
  /\ validation' = None
  /\ itunesUrl' = None
  /\ upstreamCalls' = 0
  /\ upstream' = None
  /\ response' = None
  /\ sent' = 0
  /\ path' = <<>>
  /\ UNCHANGED nodeEnv
  /\ UNCHANGED otherVars

\* the steps of the server, for requests drawn from qs, upstream answers
\* from bodies and upstream failures from errors
Step(qs, bodies, errors) ==
  \/ Receive(qs)
  \/ Validate
  \/ RespondInvalid
  \/ Build
  \/ Fetch
  \/ UpstreamResolve(bodies)
  \/ UpstreamReject(errors)
  \/ Normalize
  \/ Complete

\* every combination of the four rules, every upstream outcome, every
\* deployment mode
Next == Step(CombinedQueries, Bodies, UpstreamErrors)

Spec == Init /\ [][Next]_vars

\* every short string of each parameter, a few upstream outcomes
S_Adele == <<"A","d","e","l","e">>

\* the worked examples of the builder
ScenarioQueries ==
  { Query(Str(S_Adele), Str(S_music), Str(<<"5">>), Undefined, Undefined, Undefined),
    Query(Str(<<" ", "a", "\t">>), Str(<<>>), Str(<<>>), Str(<<>>), Undefined, Str(<<>>)),
    Query(Str(<<"a", " ", "a">>), Str(S_podcast), Str(<<"2", "0">>), Str(S_US),
          Str(S_podcast), Str(S_No)) }

InputQueries == TermQueries \cup LimitQueries \cup CountryQueries
                \cup MediaEntityQueries \cup ScenarioQueries

InputBodies == {Null, Obj([resultCount |-> Num(0), results |-> Arr(<<>>)])}

InputErrors == {e \in UpstreamErrors : e.status \in {0, 404} /\ e.code # "ETIMEDOUT"}

InputNext == Step(InputQueries, InputBodies, InputErrors)

InputInit == Init /\ nodeEnv = "production"

InputSpec == InputInit /\ [][InputNext]_vars

(***************************************************************************)
(* Upstream records for the normalizer: one group of fields varies, the    *)
(* others are fixed.                                                       *)
(***************************************************************************)
S_art30 == <<"h","/","3","0","x","3","0","b","b">>
S_badDate == <<"2","0","1","1","-","1","3","-","4","5">>

\* an object of a parsed JSON body: the fields of r that have a value
Record(r) == Obj([k \in {k \in DOMAIN r : r[k] # Undefined} |-> r[k]])

\* the record of Scenario 3
ScenarioItem ==
  Obj([trackId |-> Num(42), trackName |-> Str(S_X), artworkUrl100 |-> Str(S_art100)])

ArtworkItems ==
  {Record([trackId |-> Num(42), artworkUrl100 |-> a100, artworkUrl60 |-> a60,
           artworkUrl30 |-> a30]) :
     a100 \in {Undefined, Null, Str(<<>>), Str(S_art100), Str(S_X), Num(5)},
     a60 \in {Undefined, Str(<<>>), Str(S_art60)},
     a30 \in {Undefined, Str(S_art30)}}

PriceItems ==
  {Record([trackId |-> Num(42), trackPrice |-> t, collectionPrice |-> c]) :
     t \in {Undefined, Null, Num(0), Num(1)},
     c \in {Undefined, Num(0), Num(9)}}

IdItems ==
  {Record([trackName |-> Str(S_X), trackId |-> t, collectionId |-> c, artistId |-> a]) :
     t \in {Undefined, Num(0), Num(42)},
     c \in {Undefined, Num(0), Num(7)},
     a \in {Undefined, Num(0), Num(3)}}

DateItems ==
  {Record([trackId |-> Num(42), releaseDate |-> d]) :
     d \in {Undefined, Null, Str(<<>>), Str(S_date), Str(S_badDate), Str(S_bogus)}}

GenreItems ==
  {Record([trackId |-> Num(42), wrapperType |-> w, kind |-> k,
           primaryGenreName |-> g, genres |-> gs]) :
     w \in {Undefined, Str(S_X)},
     k \in {Undefined, Str(S_song)},
     g \in {Undefined, Str(S_Music)},
     gs \in {Undefined, Arr(<<>>), Arr(<<S_a, S_X>>)}}

\* records that tell their place in the answer, a null among them
MaxRecords == 2

OrderItems ==
  { ScenarioItem,
    Obj([collectionId |-> Num(7), artworkUrl60 |-> Str(S_art60),
         releaseDate |-> Str(S_date), collectionPrice |-> Num(9)]),
    Obj([artistName |-> Str(S_X)]),
    Obj([trackId |-> Num(43), artworkUrl100 |-> Num(5)]),
    Null }

\* answers with one record of every group
RecordBodies ==
  {Obj([resultCount |-> Num(1), results |-> Arr(<<i>>)]) :
     i \in ArtworkItems \cup PriceItems \cup IdItems \cup DateItems \cup GenreItems}

\* answers with up to MaxRecords records
SequenceBodies ==
  {Obj([resultCount |-> Num(Len(s)), results |-> Arr(s)]) :
     s \in UNION {[1..n -> OrderItems] : n \in 0..MaxRecords}}

\* answers whose resultCount and results vary independently, and answers
\* that are not an object with a results array
ShapeBodies ==
  {Record([resultCount |-> c, results |-> r]) :
     c \in {Undefined, Null, Num(0), Num(1), Num(2), Num(7)},
     r \in {Undefined, Null, Arr(<<>>), Arr(<<ScenarioItem>>), Str(S_bogus)}}
  \cup {Null, Str(S_bogus), Str(<<>>)}

NormBodies == RecordBodies \cup SequenceBodies \cup ShapeBodies

NormQueries ==
  { Query(Str(S_Adele), Str(S_music), Str(<<"5">>), Undefined, Undefined, Undefined),
    Query(Undefined, Undefined, Undefined, Undefined, Undefined, Undefined) }

NormErrors == {e \in UpstreamErrors : e.code = "ECONNABORTED"}

NormNext == Step(NormQueries, NormBodies, NormErrors)

NormSpec == InputInit /\ [][NormNext]_vars

\* the upstream records of the answer in hand and the items sent for them
Normalized == pc = "Responding"

RawItems == Get(upstream.data, "results").items

HasRecords == Normalized /\ Get(upstream.data, "results").t = "array"

SentItems == response.data.results

Records == IF HasRecords THEN 1..Len(RawItems) ELSE {}

(***************************************************************************)
(* Several requests in flight: each invocation of the handler has its own  *)
(* locals (searchParams, validation, itunesUrl, response) and the steps of *)
(* different invocations interleave at the await.                          *)
(***************************************************************************)
ConcQueries ==
  { Query(Str(S_Adele), Str(S_music), Str(<<"5">>), Undefined, Undefined, Undefined),
    Query(Undefined, Str(S_bogus), Undefined, Undefined, Undefined, Undefined) }

ConcBodies == {Null, Obj([resultCount |-> Num(1), results |-> Arr(<<ScenarioItem>>)])}

ConcErrors ==
  {e \in UpstreamErrors :
     \/ e.message = "timeout of 10000ms exceeded"
     \/ e.status \in {403, 404}}

\* the request r with its locals replaced
Becomes(r, locals) == inflight' = [inflight EXCEPT ![r] = locals]

ConcReceive(r) ==
  /\ inflight[r].pc = "Idle"
  /\ \E q \in ConcQueries :
       Becomes(r, [IdleRequest EXCEPT !.pc = "Received", !.query = q])
  /\ UNCHANGED <<nodeEnv, handlerVars, auth, lookup, ui>>

ConcValidate(r) ==
  /\ inflight[r].pc = "Received"
  /\ LET v == validateSearchParams(inflight[r].query)
     IN IF v.t = "throw"
        THEN Becomes(r, [inflight[r] EXCEPT !.pc = "UpstreamError", !.validation = v,
                           !.response = ErrorResponse(TypeError, nodeEnv)])
        ELSE Becomes(r, [inflight[r] EXCEPT !.pc = "Validating", !.validation = v])
  /\ UNCHANGED <<nodeEnv, handlerVars, auth, lookup, ui>>

ConcRespondInvalid(r) ==
  /\ inflight[r].pc = "Validating"
  /\ ~inflight[r].validation.isValid
  /\ Becomes(r, [inflight[r] EXCEPT !.pc = "Invalid",
                   !.response = InvalidResponse(inflight[r].validation)])
  /\ UNCHANGED <<nodeEnv, handlerVars, auth, lookup, ui>>

ConcBuild(r) ==
  /\ inflight[r].pc = "Validating"
  /\ inflight[r].validation.isValid
  /\ LET url == buildItunesUrl(inflight[r].query)
     IN IF url.t = "throw"
        THEN Becomes(r, [inflight[r] EXCEPT !.pc = "UpstreamError", !.itunesUrl = url,
                           !.response = ErrorResponse(TypeError, nodeEnv)])
        ELSE Becomes(r, [inflight[r] EXCEPT !.pc = "Building", !.itunesUrl = url])
  /\ UNCHANGED <<nodeEnv, handlerVars, auth, lookup, ui>>

ConcFetch(r) ==
  /\ inflight[r].pc = "Building"
  /\ Becomes(r, [inflight[r] EXCEPT !.pc = "Fetching",
                   !.upstream = [t |-> "pending", url |-> inflight[r].itunesUrl]])
  /\ UNCHANGED <<nodeEnv, handlerVars, auth, lookup, ui>>

ConcResolve(r) ==
  /\ inflight[r].pc = "Fetching"
  /\ \E data \in ConcBodies :
       Becomes(r, [inflight[r] EXCEPT !.pc = "Normalizing",
                     !.upstream = [t |-> "resolved", data |-> data]])
  /\ UNCHANGED <<nodeEnv, handlerVars, auth, lookup, ui>>

\* mutant: the failure of one call is reported to every request that waits
\* for its call
ConcReject_FailsAll(r) ==
  /\ inflight[r].pc = "Fetching"
  /\ \E error \in ConcErrors :
       inflight' = [s \in Requests |->
                      IF inflight[s].pc = "Fetching"
                      THEN [inflight[s] EXCEPT !.pc = "UpstreamError",
                              !.upstream = [t |-> "rejected", error |-> error],
                              !.response = ErrorResponse(error, nodeEnv)]
                      ELSE inflight[s]]
  /\ UNCHANGED <<nodeEnv, handlerVars, auth, lookup, ui>>

ConcReject(r) ==
  /\ inflight[r].pc = "Fetching"
  /\ \E error \in ConcErrors :
       Becomes(r, [inflight[r] EXCEPT !.pc = "UpstreamError",
                     !.upstream = [t |-> "rejected", error |-> error],
                     !.response = ErrorResponse(error, nodeEnv)])
  /\ UNCHANGED <<nodeEnv, handlerVars, auth, lookup, ui>>

\* the responses processItunesResponse and res.json can make of the query
\* and the body, one for each run of the clock
SuccessResponses(params, data) ==
  LET n == IF Get(data, "results").t = "array"
           THEN Len(Get(data, "results").items) ELSE 0
  IN {LET processedData == processItunesResponse(data, SubSeq(c, 1, n), c[n + 1])
      IN IF processedData.t = "throw" THEN ErrorResponse(TypeError, nodeEnv)
         ELSE SuccessResponse(params, processedData, c[n + 2], c[n + 3]) :
      c \in ClockReadings(n + 3)}

ConcNormalize(r) ==
  /\ inflight[r].pc = "Normalizing"
  /\ \E resp \in SuccessResponses(inflight[r].query, inflight[r].upstream.data) :
       Becomes(r, [inflight[r] EXCEPT
                     !.pc = IF resp.status = 200 THEN "Responding" ELSE "UpstreamError",
                     !.response = resp])
  /\ UNCHANGED <<nodeEnv, handlerVars, auth, lookup, ui>>

ConcComplete(r) ==
  /\ inflight[r].pc \in Terminal
  /\ Becomes(r, IdleRequest)
  /\ UNCHANGED <<nodeEnv, handlerVars, auth, lookup, ui>>

ConcNext ==
  \E r \in Requests :
     \/ ConcReceive(r)
     \/ ConcValidate(r)
     \/ ConcRespondInvalid(r)
     \/ ConcBuild(r)
     \/ ConcFetch(r)
     \/ ConcResolve(r)
     \/ ConcReject(r)
     \/ ConcNormalize(r)
     \/ ConcComplete(r)

ConcSpec == InputInit /\ [][ConcNext]_vars

(***************************************************************************)
(* The middleware in front of the search routes: authenticateToken, then   *)
(* searchLimiter, then the handler.                                        *)
(***************************************************************************)
\* String.prototype.split(" ")
RECURSIVE Split(_)
Split(s) ==
  LET i == IndexOf(s, <<" ">>)
  IN IF i = 0 THEN <<s>>
     ELSE <<SubSeq(s, 1, i - 1)>> \o Split(SubSeq(s, i + 1, Len(s)))

\* authHeader && authHeader.split(' ')[1]
BearerToken(authHeader) ==
  IF ~Truthy(authHeader) THEN authHeader
  ELSE LET parts == Split(authHeader.s)
       IN IF Len(parts) >= 2 THEN Str(parts[2]) ELSE Undefined

\* jwt.verify(token, process.env.JWT_SECRET): the token "v" is one signed
\* with the secret and in its validity period, "e" is one that has expired,
\* "n" one that is not valid yet, every other text is no token of the server
JwtVerify(token) ==
  CASE token = <<"v">> -> [ok |-> TRUE, decoded |-> [userId |-> "u"]]
    [] token = <<"e">> -> [ok |-> FALSE, name |-> "TokenExpiredError"]
    [] token = <<"n">> -> [ok |-> FALSE, name |-> "NotBeforeError"]
    [] OTHER -> [ok |-> FALSE, name |-> "JsonWebTokenError"]

Unauthorized(error, message) == [status |-> 401, error |-> error, message |-> message]

\* the max of searchLimiter
SEARCH_LIMIT_MAX == 20

HeaderChars == {"b", " ", "v", "e", "n"}

Headers == {Undefined} \cup {Str(s) : s \in Strings(HeaderChars, MaxLen)}

\* a request for GET /api/search arrives with the Authorization header h
AuthArrive ==
  /\ auth.pc = "Idle"
  /\ \E h \in Headers :
       auth' = [IdleAuth(auth.hits) EXCEPT !.pc = "authenticateToken", !.header = h]
  /\ UNCHANGED <<nodeEnv, handlerVars, inflight, lookup, ui>>

\* mutant: optionalAuth in the place of authenticateToken
Authenticate_Optional ==
  /\ auth.pc = "authenticateToken"
  /\ LET token == BearerToken(auth.header)
     IN IF ~Truthy(token)
        THEN auth' = [auth EXCEPT !.pc = "searchLimiter", !.token = token,
                                  !.nextCalls = 1]
        ELSE LET v == JwtVerify(token.s)
             IN auth' = [auth EXCEPT !.pc = "searchLimiter", !.token = token,
                           !.user = IF v.ok THEN v.decoded ELSE None,
                           !.nextCalls = 1]
  /\ UNCHANGED <<nodeEnv, handlerVars, inflight, lookup, ui>>

\* authenticateToken(req, res, next)
Authenticate ==
  /\ auth.pc = "authenticateToken"
  /\ LET token == BearerToken(auth.header)
     IN IF ~Truthy(token)
        THEN auth' = [auth EXCEPT !.pc = "done", !.token = token, !.sent = 1,
                        !.response =
                           Unauthorized("Access Denied",
                             "No token provided. Please include a valid JWT token in the Authorization header.")]
        ELSE LET v == JwtVerify(token.s)
             IN IF v.ok
                THEN auth' = [auth EXCEPT !.pc = "searchLimiter", !.token = token,
                                !.user = v.decoded, !.nextCalls = 1]
                ELSE auth' = [auth EXCEPT !.pc = "done", !.token = token, !.sent = 1,
                                !.response =
                                   CASE v.name = "TokenExpiredError" ->
                                          Unauthorized("Token Expired",
                                            "Your session has expired. Please request a new token.")
                                     [] v.name = "JsonWebTokenError" ->
                                          Unauthorized("Invalid Token",
                                            "The provided token is invalid or malformed.")
                                     [] OTHER ->
                                          Unauthorized("Authentication Failed",
                                            "Token verification failed.")]
  /\ UNCHANGED <<nodeEnv, handlerVars, inflight, lookup, ui>>

\* searchLimiter: the hit is counted; past the max of the window the
\* request is answered 429 with the limiter's message
SearchLimit ==
  /\ auth.pc = "searchLimiter"
  /\ IF auth.hits >= SEARCH_LIMIT_MAX
     THEN auth' = [auth EXCEPT !.pc = "done", !.hits = SEARCH_LIMIT_MAX + 1,
                     !.reached = @ \cup {"searchLimiter"},
                     !.response = [status |-> 429, error |-> "Search rate limit exceeded",
                                   message |-> "Too many search requests. iTunes API allows maximum 20 calls per minute."]]
     ELSE auth' = [auth EXCEPT !.pc = "handler", !.hits = @ + 1,
                     !.reached = @ \cup {"searchLimiter"}]
  /\ UNCHANGED <<nodeEnv, handlerVars, inflight, lookup, ui>>

\* the handler of the route: parameter validation and what follows it
Handle ==
  /\ auth.pc = "handler"
  /\ auth' = [auth EXCEPT !.pc = "done", !.reached = @ \cup {"validation", "upstream"}]
  /\ UNCHANGED <<nodeEnv, handlerVars, inflight, lookup, ui>>

\* the window of the limiter (1 minute) expires
WindowExpires ==
  /\ auth.pc = "Idle"
  /\ auth.hits > 0
  /\ auth' = [auth EXCEPT !.hits = 0]
  /\ UNCHANGED <<nodeEnv, handlerVars, inflight, lookup, ui>>

AuthComplete ==
  /\ auth.pc = "done"
  /\ auth' = IdleAuth(auth.hits)
  /\ UNCHANGED <<nodeEnv, handlerVars, inflight, lookup, ui>>

AuthNext ==
  \/ AuthArrive
  \/ Authenticate
  \/ SearchLimit
  \/ Handle
  \/ WindowExpires
  \/ AuthComplete

AuthSpec == InputInit /\ [][AuthNext]_vars

(***************************************************************************)
(* GET /api/search/lookup/:itemId request handler.                         *)
(***************************************************************************)
ITUNES_LOOKUP_ENDPOINT == "https://itunes.apple.com/lookup"

\* mutant: the pattern is not anchored
LookupIdTest_Unanchored(itemId) == \E i \in 1..Len(itemId) : IsDigit(itemId[i])

\* /^\d+$/.test(itemId)
LookupIdTest(itemId) == itemId # <<>> /\ \A i \in 1..Len(itemId) : IsDigit(itemId[i])

InvalidIdResponse ==
  [status |-> 400, error |-> "Invalid ID", message |-> "Item ID must be a valid number"]

NotFoundResponse(itemId) ==
  [status |-> 404, error |-> "Not Found",
   message |-> <<"No item found with ID: ", ToString(itemId)>>]

LookupFailedResponse ==
  [status |-> 500, error |-> "Lookup Failed",
   message |-> "Unable to lookup item. Please try again later."]

LookupSuccessResponse(processedData, responseTime, lookedUpAt) ==
  [status |-> 200,
   success |-> TRUE,
   data |-> processedData,
   metadata |-> [responseTime |-> responseTime,
                 lookedUpAt |-> lookedUpAt,
                 apiVersion |-> "1.0"]]

\* req.params.itemId: a path segment, never empty
IdChars == {"0", "7", "a", "-", "\n"}

ItemIds == {Str(s) : s \in Strings(IdChars, MaxLen) \ {<<>>}}

LookupBodies ==
  { Null, Str(S_bogus),
    Obj([resultCount |-> Num(0), results |-> Arr(<<>>)]),
    Obj([resultCount |-> Num(1), results |-> Arr(<<ScenarioItem>>)]),
    Obj([results |-> Arr(<<ScenarioItem>>)]),
    Obj([resultCount |-> Num(2), results |-> Arr(<<ScenarioItem, Null>>)]) }

\* a request passes authenticateToken and searchLimiter and reaches the handler
LookupReceive ==
  /\ lookup.pc = "Idle"
  /\ \E id \in ItemIds : lookup' = [IdleLookup EXCEPT !.pc = "Received", !.itemId = id]
  /\ UNCHANGED <<nodeEnv, handlerVars, inflight, auth, ui>>

\* the id is tested; a bad id is answered 400, for a good one the lookup
\* URL is made and axios.get is issued
LookupValidate ==
  /\ lookup.pc = "Received"
  /\ IF ~Truthy(lookup.itemId) \/ ~LookupIdTest(lookup.itemId.s)
     THEN lookup' = [lookup EXCEPT !.pc = "Done", !.response = InvalidIdResponse,
                                   !.sent = @ + 1]
     ELSE LET url == [endpoint |-> ITUNES_LOOKUP_ENDPOINT, id |-> lookup.itemId.s]
          IN lookup' = [lookup EXCEPT !.pc = "Fetching", !.lookupUrl = url,
                          !.upstreamCalls = @ + 1,
                          !.upstream = [t |-> "pending", url |-> url]]
  /\ UNCHANGED <<nodeEnv, handlerVars, inflight, auth, ui>>

LookupResolve ==
  /\ lookup.pc = "Fetching"
  /\ \E data \in LookupBodies :
       lookup' = [lookup EXCEPT !.pc = "Normalizing",
                    !.upstream = [t |-> "resolved", data |-> data]]
  /\ UNCHANGED <<nodeEnv, handlerVars, inflight, auth, ui>>

\* the call rejects and the catch block answers
LookupReject ==
  /\ lookup.pc = "Fetching"
  /\ \E error \in UpstreamErrors :
       lookup' = [lookup EXCEPT !.pc = "Done",
                    !.upstream = [t |-> "rejected", error |-> error],
                    !.response = LookupFailedResponse, !.sent = @ + 1]
  /\ UNCHANGED <<nodeEnv, handlerVars, inflight, auth, ui>>

\* processItunesResponse, then 404, 200, or the catch block
LookupRespond ==
  /\ lookup.pc = "Normalizing"
  /\ LET data == lookup.upstream.data
         n == IF Get(data, "results").t = "array"
              THEN Len(Get(data, "results").items) ELSE 0
     IN \E c \in ClockReadings(n + 3) :
          LET processedData == processItunesResponse(data, SubSeq(c, 1, n), c[n + 1])
          IN lookup' =
               [lookup EXCEPT !.pc = "Done", !.sent = @ + 1,
                  !.response =
                     IF processedData.t = "throw" THEN LookupFailedResponse
                     ELSE IF processedData.resultCount = Num(0)
                     THEN NotFoundResponse(lookup.itemId)
                     ELSE LookupSuccessResponse(processedData, c[n + 2], c[n + 3])]
  /\ UNCHANGED <<nodeEnv, handlerVars, inflight, auth, ui>>

LookupComplete ==
  /\ lookup.pc = "Done"
  /\ lookup' = IdleLookup
  /\ UNCHANGED <<nodeEnv, handlerVars, inflight, auth, ui>>

LookupNext ==
  \/ LookupReceive
  \/ LookupValidate
  \/ LookupResolve
  \/ LookupReject
  \/ LookupRespond
  \/ LookupComplete

LookupSpec == InputInit /\ [][LookupNext]_vars

(***************************************************************************)
(* The frontend: App.handleSearch, SearchBar, the API service and the      *)
(* favorites list.                                                         *)
(***************************************************************************)
\* a message shown to the user
Text(m) == [t |-> "text", m |-> m]

\* encodeURIComponent, for letters, digits, a space and a tab
EncodeURIComponentChar(c) ==
  IF c \in UpperLetters \cup LowerLetters \cup {DecDigits[i] : i \in 1..10}
          \cup {"-", "_", ".", "!", "~", "*", "'", "(", ")"}
  THEN <<c>>
  ELSE CASE c = " " -> <<"%", "2", "0">>
         [] c = "\t" -> <<"%", "0", "9">>
         [] OTHER -> <<"%", "?", "?">>

RECURSIVE EncodeURIComponent(_)
EncodeURIComponent(s) ==
  IF s = <<>> THEN <<>>
  ELSE EncodeURIComponentChar(Head(s)) \o EncodeURIComponent(Tail(s))

\* searchItunes(term, media): the query the backend receives for
\* params = { term: encodeURIComponent(term), limit: 50, media? }
SearchItunesQuery(term, media) ==
  Query(Str(EncodeURIComponent(term)),
        IF media # <<>> /\ media # S_all THEN Str(media) ELSE Undefined,
        Str(S_50), Undefined, Undefined, Undefined)

\* handleSearch(term, media) up to its await
HandleSearch(u, term, media) ==
  IF Trim(term) = <<>>
  THEN [u EXCEPT !.error = Text("Please enter a search term")]
  ELSE [u EXCEPT !.loading = TRUE, !.error = Null, !.searchTerm = term,
                 !.mediaType = media, !.last = None,
                 !.pending = Append(@, SearchItunesQuery(term, media))]

\* error.response?.data?.message
MessageOf(error) ==
  IF error.response = None THEN Undefined
  ELSE IF "message" \in DOMAIN error.response.data
  THEN Text(error.response.data.message)
  ELSE Undefined

\* the catch block and the finally block of handleSearch; message is
\* error.response?.data?.message
HandleSearchFailed(u, message) ==
  [u EXCEPT !.error = IF message.t = "text" /\ message.m # ""
                      THEN message ELSE Text("Search failed. Please try again."),
            !.searchResults = <<>>,
            !.loading = FALSE]

\* handleSearch after searchItunes resolved with the axios response:
\* response.data is the body the backend sent
HandleSearchResolved(u, res) ==
  IF "results" \notin DOMAIN res.data
  THEN \* setSearchResults([]), then undefined.length throws a TypeError
       HandleSearchFailed(u, Undefined)
  ELSE [u EXCEPT !.searchResults = res.data.results,
                 !.error = IF Len(res.data.results) = 0
                           THEN Text("No results found. Try a different search term.")
                           ELSE @,
                 !.loading = FALSE]

\* handleSearch after searchItunes rejected with the axios error
HandleSearchRejected(u, error) ==
  HandleSearchFailed(u, MessageOf(error))

\* what the api.get of searchItunes settles with for the query q, the
\* backend being the search handler: resolved for a 2xx answer, rejected for
\* any other answer, for a 401 of authenticateToken, a 429 of the limiter
\* and when no answer comes (network failure, 10 s time-out of the client)
UiBodies == {Null, Obj([resultCount |-> Num(0), results |-> Arr(<<>>)]),
             Obj([resultCount |-> Num(1), results |-> Arr(<<ScenarioItem>>)])}

UiErrors ==
  {e \in UpstreamErrors :
     \/ e.message = "timeout of 10000ms exceeded"
     \/ e.status \in {403, 404}}

BackendAnswers(q) ==
  LET v == validateSearchParams(q)
  IN IF v.t = "throw" THEN {ErrorResponse(TypeError, nodeEnv)}
     ELSE IF ~v.isValid THEN {InvalidResponse(v)}
     ELSE UNION {SuccessResponses(q, data) : data \in UiBodies}
          \cup {ErrorResponse(e, nodeEnv) : e \in UiErrors}
          \cup {Unauthorized("Token Expired",
                  "Your session has expired. Please request a new token.")}

Settlements(q) ==
  {IF body.status = 200
   THEN [t |-> "resolved", response |-> [status |-> 200, data |-> body]]
   ELSE [t |-> "rejected", error |-> [response |-> [status |-> body.status, data |-> body]]] :
   body \in BackendAnswers(q)}
  \cup {[t |-> "rejected", error |-> [response |-> None]]}

UiTerms == Strings({"a", " "}, MaxLen)

UiMediaTypes == {S_all, S_music}

S_TaylorSwift == <<"T","a","y","l","o","r"," ","S","w","i","f","t">>
S_Marvel == <<"M","a","r","v","e","l">>

quickSearchTerms == {S_TaylorSwift, S_Marvel}

\* the user types in the search input (disabled while loading)
TypeTerm ==
  /\ ~ui.loading
  /\ \E s \in UiTerms : ui' = [ui EXCEPT !.barTerm = s]
  /\ UNCHANGED <<nodeEnv, handlerVars, inflight, auth, lookup>>

\* the user picks a media type (the selector is disabled while loading)
SelectMedia ==
  /\ ~ui.loading
  /\ \E m \in UiMediaTypes : ui' = [ui EXCEPT !.barMedia = m]
  /\ UNCHANGED <<nodeEnv, handlerVars, inflight, auth, lookup>>

\* mutant: handleSubmit does not test loading
Submit_WhileLoading ==
  /\ ui' = IF Trim(ui.barTerm) # <<>>
           THEN HandleSearch(ui, Trim(ui.barTerm), ui.barMedia) ELSE ui
  /\ UNCHANGED <<nodeEnv, handlerVars, inflight, auth, lookup>>

\* SearchBar.handleSubmit: the form is submitted
Submit ==
  /\ ui' = IF Trim(ui.barTerm) # <<>> /\ ~ui.loading
           THEN HandleSearch(ui, Trim(ui.barTerm), ui.barMedia) ELSE ui
  /\ UNCHANGED <<nodeEnv, handlerVars, inflight, auth, lookup>>

\* SearchBar.handleQuickSearch: a quick search button is clicked (the
\* buttons are disabled while loading)
QuickSearch ==
  /\ ~ui.loading
  /\ \E term \in quickSearchTerms :
       ui' = HandleSearch([ui EXCEPT !.barTerm = term], term, ui.barMedia)
  /\ UNCHANGED <<nodeEnv, handlerVars, inflight, auth, lookup>>

\* a searchItunes call settles and handleSearch runs to its end
SearchSettles ==
  /\ ui.pending # <<>>
  /\ \E i \in 1..Len(ui.pending) :
       \E s \in Settlements(ui.pending[i]) :
          LET u == [ui EXCEPT !.last = s,
                      !.pending = SubSeq(@, 1, i - 1) \o SubSeq(@, i + 1, Len(@))]
          IN ui' = IF s.t = "resolved" THEN HandleSearchResolved(u, s.response)
                   ELSE HandleSearchRejected(u, s.error)
  /\ UNCHANGED <<nodeEnv, handlerVars, inflight, auth, lookup>>

UiNext ==
  \/ TypeTerm
  \/ SelectMedia
  \/ Submit
  \/ QuickSearch
  \/ SearchSettles

UiSpec == InputInit /\ [][UiNext]_vars

\* favorites.some(fav => fav.uniqueId === itemId)
isFavorite(favorites, itemId) ==
  \E i \in 1..Len(favorites) : Get(favorites[i], "uniqueId") = itemId

\* mutant: the item is added without looking for its id
addToFavorites_NoCheck(favorites, item) == Append(favorites, item)

addToFavorites(favorites, item) ==
  IF ~isFavorite(favorites, Get(item, "uniqueId")) THEN Append(favorites, item)
  ELSE favorites

\* prev.filter(fav => fav.uniqueId !== itemId)
removeFromFavorites(favorites, itemId) ==
  SelectSeq(favorites, LAMBDA fav : Get(fav, "uniqueId") # itemId)

\* FavoritesList.handleClearAll, confirmed: every favorite is removed by
\* its id, one after the other
RECURSIVE RemoveEach(_, _)
RemoveEach(favorites, items) ==
  IF items = <<>> THEN favorites
  ELSE RemoveEach(removeFromFavorites(favorites, Get(Head(items), "uniqueId")),
                  Tail(items))

handleClearAll(favorites) == RemoveEach(favorites, favorites)

\* normalized items: two of them share a uniqueId
FavoriteItems ==
  { Obj([uniqueId |-> Num(42), trackName |-> Str(S_X)]),
    Obj([uniqueId |-> Num(42), trackName |-> Str(S_a)]),
    Obj([uniqueId |-> Num(7), trackName |-> Str(S_X)]),
    Obj([uniqueId |-> Num(3), trackName |-> Str(S_X)]),
    Obj([uniqueId |-> Num(1), trackName |-> Str(S_a)]),
    Obj([uniqueId |-> Num(5), trackName |-> Str(S_a)]) }

FavoriteIds == {Get(item, "uniqueId") : item \in FavoriteItems}

\* the heart of an item that is not a favorite is clicked
AddFavorite ==
  /\ \E item \in FavoriteItems :
       ui' = [ui EXCEPT !.favorites = addToFavorites(@, item),
                        !.lastOp = [op |-> "add", item |-> item]]
  /\ UNCHANGED <<nodeEnv, handlerVars, inflight, auth, lookup>>

\* the heart of a favorite, or its remove button, is clicked
RemoveFavorite ==
  /\ \E id \in FavoriteIds :
       ui' = [ui EXCEPT !.favorites = removeFromFavorites(@, id),
                        !.lastOp = [op |-> "remove", id |-> id]]
  /\ UNCHANGED <<nodeEnv, handlerVars, inflight, auth, lookup>>

\* Clear All is clicked and confirmed
ClearAllFavorites ==
  /\ ui.favorites # <<>>
  /\ ui' = [ui EXCEPT !.favorites = handleClearAll(@), !.lastOp = [op |-> "clear"]]
  /\ UNCHANGED <<nodeEnv, handlerVars, inflight, auth, lookup>>

FavNext ==
  \/ AddFavorite
  \/ RemoveFavorite
  \/ ClearAllFavorites

FavSpec == InputInit /\ [][FavNext]_vars

(***************************************************************************)
(* Properties.                                                             *)
(***************************************************************************)
Validated == validation.t = "result"

HasError(e) == \E i \in 1..Len(validation.errors) : validation.errors[i] = e

\* C1: a request whose parameters fail validation is answered 400 and no
\* upstream call is ever issued for it: it goes Received -> Validating ->
\* Invalid and never enters Building or Fetching.  The only step such a
\* request takes from Validating is the 400 response.
C1_InvalidNeverFetched ==
  /\ []((Validated /\ ~validation.isValid) =>
          /\ pc \in {"Validating", "Invalid"}
          /\ upstreamCalls = 0
          /\ upstream = None
          /\ itunesUrl = None
          /\ pc = "Validating" => (path = <<"Received", "Validating">> /\ sent = 0)
          /\ pc = "Invalid" =>
               /\ path = <<"Received", "Validating", "Invalid">>
               /\ response.status = 400
               /\ response.error = "Invalid Parameters"
               /\ sent = 1)
  /\ [][(pc = "Validating" /\ ~validation.isValid) =>
          /\ pc' = "Invalid"
          /\ response'.status = 400
          /\ upstreamCalls' = 0 /\ upstream' = None]_vars

C1_Witness ==
  /\ pc = "Invalid"
  /\ ~validation.isValid
  /\ response.status = 400
  /\ upstreamCalls = 0

\* the errors the validator reports for one parameter validated alone
\* (next to a valid term)
C2_TermAlone(q) ==
  validateSearchParams(
    Query(q.term, Undefined, Undefined, Undefined, Undefined, Undefined)).errors
C2_MediaAlone(q) ==
  validateSearchParams(
    Query(Str(S_a), q.media, Undefined, Undefined, Undefined, Undefined)).errors
C2_LimitAlone(q) ==
  validateSearchParams(
    Query(Str(S_a), Undefined, q.limit, Undefined, Undefined, Undefined)).errors
C2_CountryAlone(q) ==
  validateSearchParams(
    Query(Str(S_a), Undefined, Undefined, q.country, Undefined, Undefined)).errors

\* C2: the four rules are checked independently and every violated rule
\* is reported, in rule order: the error list of a request is the list of
\* the term error, the media error, the limit error and the country error
\* that each parameter earns on its own, so there are as many errors as
\* violated rules; the 400 response carries that whole list.
C2_AllViolationsReported ==
  Validated =>
    /\ validation.errors = C2_TermAlone(query) \o C2_MediaAlone(query)
                            \o C2_LimitAlone(query) \o C2_CountryAlone(query)
    /\ Len(C2_TermAlone(query)) <= 1 /\ Len(C2_MediaAlone(query)) <= 1
    /\ Len(C2_LimitAlone(query)) <= 1 /\ Len(C2_CountryAlone(query)) <= 1
    /\ pc = "Invalid" =>
         /\ response.status = 400
         /\ response.errors = validation.errors
         /\ Len(response.errors) >= 1

C2_Witness ==
  /\ pc = "Invalid"
  /\ response.errors = <<TermError, MediaError, LimitError, CountryError>>

\* C3: the validator is total and pure: for every query (each field
\* absent, a string or an array) it returns {isValid, errors} and never
\* throws, isValid is true exactly when the error list is empty, and the
\* validating step changes nothing but the validation result.
C3_ValidatorTotalAndPure ==
  /\ [](validation # None =>
          /\ Validated
          /\ validation.isValid \in BOOLEAN
          /\ validation.isValid <=> (validation.errors = <<>>)
          /\ \A i \in 1..Len(validation.errors) :
                validation.errors[i] \in {TermError, MediaError, LimitError, CountryError})
  /\ [][pc = "Received" =>
          /\ pc' = "Validating"
          /\ validation' # None
          /\ UNCHANGED <<nodeEnv, query, itunesUrl, upstreamCalls, upstream,
                          response, sent>>]_vars

C3_Witness ==
  /\ pc = "Invalid"
  /\ query.term = Arr(<<S_a>>)
  /\ validation.errors = <<TermError>>

\* the term is a string with at least one character that is not white space
C4_HasNonWhiteSpace(v) ==
  v.t = "string" /\ \E i \in 1..Len(v.s) : v.s[i] \notin {" ", "\t", "\n"}

\* C4: a term that is missing, not a string, or empty after trimming
\* (white space only included) makes the validator return invalid with the
\* "Search term is required" error; a term with a character that is not
\* white space never produces that error.
C4_TermRequired ==
  Validated =>
    /\ HasError(TermError) <=> ~C4_HasNonWhiteSpace(query.term)
    /\ ~C4_HasNonWhiteSpace(query.term) => ~validation.isValid
    /\ TermError.text = "Search term is required and must be a non-empty string"

C4_Witness ==
  /\ pc = "Invalid"
  /\ query.term = Str(<<" ", "\t">>)
  /\ HasError(TermError)

C5_IsDecimal(s) ==
  s # <<>> /\ \A i \in 1..Len(s) : s[i] \in {"0","1","2","3","4","5","6","7","8","9"}

C5_Digit(c) ==
  CASE c = "0" -> 0 [] c = "1" -> 1 [] c = "2" -> 2 [] c = "3" -> 3 [] c = "4" -> 4
    [] c = "5" -> 5 [] c = "6" -> 6 [] c = "7" -> 7 [] c = "8" -> 8 [] c = "9" -> 9

\* the integer a decimal numeral denotes
RECURSIVE C5_Value(_)
C5_Value(s) ==
  IF s = <<>> THEN 0
  ELSE 10 * C5_Value(SubSeq(s, 1, Len(s) - 1)) + C5_Digit(s[Len(s)])

\* C5: a limit given as a decimal integer string passes the limit rule
\* exactly when the integer is in 1..200 ("0" and "201" fail, "1" and
\* "200" pass).
C5_LimitBoundaries ==
  (Validated /\ query.limit.t = "string" /\ C5_IsDecimal(query.limit.s)) =>
    (~HasError(LimitError) <=> C5_Value(query.limit.s) \in 1..200)

C5_Witness ==
  /\ pc = "Fetching"
  /\ query.limit = Str(<<"2", "0", "0">>)
  /\ validation.isValid

\* the value of parameter k in the upstream URL (k is among its parameters)
UrlParam(k) ==
  LET i == CHOOSE i \in 1..Len(itunesUrl.searchParams) : itunesUrl.searchParams[i].k = k
  IN itunesUrl.searchParams[i].v

UrlHasParam(k) ==
  \E i \in 1..Len(itunesUrl.searchParams) : itunesUrl.searchParams[i].k = k

\* C6: a limit that is present and is not an integer numeral (text, digits
\* followed by other characters, a fractional number) earns the limit
\* error, and only integer numerals in 1..200 are forwarded upstream.  The
\* empty value, which validator and builder alike treat as absent, is left
\* out: the statement fails on the non-empty values already.
C6_NonIntegerLimitRejected ==
  /\ (Validated /\ query.limit.t = "string" /\ query.limit.s # <<>>
        /\ ~C5_IsDecimal(query.limit.s)) => HasError(LimitError)
  /\ pc = "Fetching" =>
        (C5_IsDecimal(UrlParam("limit")) /\ C5_Value(UrlParam("limit")) \in 1..200)

C7_TwoUpperCase(s) ==
  Len(s) = 2 /\ \A i \in 1..Len(s) : s[i] \in UpperLetters

\* C7 as stated: whenever country is present, the validator accepts it
\* exactly when it is two upper-case ASCII letters.
C7_CountryAsStated ==
  (Validated /\ query.country.t = "string") =>
    (~HasError(CountryError) <=> C7_TwoUpperCase(query.country.s))

\* C7, amended: whenever country is present with a non-empty value, the
\* validator accepts it exactly when it is two upper-case ASCII letters;
\* an empty value earns no country error.
C7_CountryRule ==
  (Validated /\ query.country.t = "string") =>
    IF query.country.s = <<>> THEN ~HasError(CountryError)
    ELSE ~HasError(CountryError) <=> C7_TwoUpperCase(query.country.s)

C7_Witness ==
  /\ pc = "Invalid"
  /\ query.country = Str(<<"U", "s">>)
  /\ validation.errors = <<CountryError>>

C8_TenTypes ==
  {S_all, S_music, S_movie, S_podcast, S_musicVideo, S_audiobook, S_shortFilm,
   S_tvShow, S_software, S_ebook}

\* the media error names every one of the ten types
C8_ErrorListsTypes ==
  \A m \in C8_TenTypes : IndexOf(MediaError.list, m) > 0

\* C8 as stated: whenever media is present, the validator accepts it
\* exactly when it is one of the ten media types, and any other present
\* value earns an error listing the ten.
C8_MediaAsStated ==
  (Validated /\ query.media.t = "string") =>
    /\ ~HasError(MediaError) <=> query.media.s \in C8_TenTypes
    /\ HasError(MediaError) => C8_ErrorListsTypes

\* C8, amended: whenever media is present with a non-empty value, the
\* validator accepts it exactly when it is one of the ten media types, and
\* any other non-empty value earns an error listing the ten; an empty value
\* earns no media error.
C8_MediaRule ==
  (Validated /\ query.media.t = "string") =>
    /\ IF query.media.s = <<>> THEN ~HasError(MediaError)
       ELSE ~HasError(MediaError) <=> query.media.s \in C8_TenTypes
    /\ HasError(MediaError) => C8_ErrorListsTypes

C8_Witness ==
  /\ pc = "Invalid"
  /\ query.media = Str(S_Music)
  /\ validation.errors = <<MediaError>>

\* C9: a query that passed validation and reached the builder has a term
\* of 1 to 100 characters after trimming; a longer term never reaches the
\* upstream call.
C9_TermLengthBounded ==
  pc \in {"Building", "Fetching"} =>
    (Len(UrlParam("term")) >= 1 /\ Len(UrlParam("term")) <= MAX_LENGTH)

\* the entity list mapped from media type m, as a set
C10_EntitySet(m) ==
  IF MEDIA_ENTITIES(m).t = "array"
  THEN {MEDIA_ENTITIES(m).items[i] : i \in 1..Len(MEDIA_ENTITIES(m).items)}
  ELSE {}

\* C10 as stated: the URL has an entity parameter exactly when entity is
\* present and in the entity set of the effective media type, which is
\* the provided media, or "all" when media is absent.
C10_EntityAsStated ==
  itunesUrl # None =>
    /\ itunesUrl.t = "url"
    /\ UrlHasParam("entity") <=>
         /\ query.entity.t = "string"
         /\ query.entity.s \in
              C10_EntitySet(IF query.media = Undefined THEN S_all ELSE query.media.s)

\* C10, amended: the effective media type is the provided media, or "all"
\* when media is absent or empty.  The URL has an entity parameter, with
\* the provided value, exactly when entity is present and in the entity
\* set of the effective media type; otherwise the URL is built without it
\* and without any error.
C10_EntityRule ==
  itunesUrl # None =>
    /\ itunesUrl.t = "url"
    /\ validation.isValid
    /\ UrlHasParam("entity") <=>
         /\ query.entity.t = "string"
         /\ query.entity.s \in
              C10_EntitySet(IF query.media \in {Undefined, Str(<<>>)}
                            THEN S_all ELSE query.media.s)
    /\ UrlHasParam("entity") => UrlParam("entity") = query.entity.s

C10_Witness ==
  /\ pc = "Fetching"
  /\ query.media = Str(S_music)
  /\ query.entity = Str(S_podcast)
  /\ ~UrlHasParam("entity")
  /\ upstream.url = itunesUrl

\* the value the builder is to send for a query value v with default d,
\* when every present value counts as provided
C11_Provided(v, d) == IF v = Undefined THEN d ELSE v.s

\* the same, when an empty value counts as absent
C11_Effective(v, d) == IF v \in {Undefined, Str(<<>>)} THEN d ELSE v.s

C11_Pair(name, value) == name \o <<"=">> \o FormEncode(value)

\* the query string with the parameters in the order term, media, limit,
\* country, explicit, then entity when it is kept
C11_Expected(media, limit, country, explicit) ==
  C11_Pair(S_term, Trim(query.term.s))
  \o <<"&">> \o C11_Pair(S_media, media)
  \o <<"&">> \o C11_Pair(S_limit, limit)
  \o <<"&">> \o C11_Pair(S_country, country)
  \o <<"&">> \o C11_Pair(S_explicit, explicit)
  \o (IF UrlHasParam("entity")
      THEN <<"&">> \o C11_Pair(S_entity, query.entity.s) ELSE <<>>)

\* the query carries strings only
C11_StringQuery ==
  \A k \in {"media", "limit", "country", "explicit"} :
     query[k].t \in {"undefined", "string"}

\* C11 as stated: the URL carries term, media, limit, country, explicit
\* (then entity if kept) in this order, each with the provided value or,
\* when none is provided, the default all, 50, US, Yes.
C11_OrderAsStated ==
  (itunesUrl # None /\ itunesUrl.t = "url" /\ C11_StringQuery) =>
    itunesUrl.search =
      C11_Expected(C11_Provided(query.media, S_all), C11_Provided(query.limit, S_50),
                   C11_Provided(query.country, S_US), C11_Provided(query.explicit, S_Yes))

\* C11, amended: the URL carries term, media, limit, country, explicit
\* (then entity if kept) in this order, each with the provided non-empty
\* value or, when the value is absent or empty, the default all, 50, US,
\* Yes; the URL fetched is the URL built.
C11_ParameterOrder ==
  (itunesUrl # None /\ itunesUrl.t = "url" /\ C11_StringQuery) =>
    /\ itunesUrl.search =
         C11_Expected(C11_Effective(query.media, S_all), C11_Effective(query.limit, S_50),
                      C11_Effective(query.country, S_US), C11_Effective(query.explicit, S_Yes))
    /\ pc = "Fetching" => upstream.url = itunesUrl

C11_Witness ==
  /\ pc = "Fetching"
  /\ query = Query(Str(S_Adele), Str(S_music), Str(<<"5">>), Undefined, Undefined, Undefined)
  /\ upstream.url.search =
       <<"t","e","r","m","=","A","d","e","l","e","&","m","e","d","i","a","=","m","u","s","i","c","&","l","i","m","i","t","=","5","&","c","o","u","n","t","r","y","=","U","S","&","e","x","p","l","i","c","i","t","=","Y","e","s">>

\* an artwork field the normalizer can use: a string that is not empty
C12_Usable(v) == v.t = "string" /\ v.s # <<>>

\* the field with the first occurrence of its size token replaced
C12_Upgrade(v, token) ==
  IF v.t = "string" THEN Str(ReplaceFirst(v.s, token, S_300x300)) ELSE v

\* the artworkUrl the claim gives a record, every field the record has
\* counting as present
C12_Stated(raw) ==
  IF Get(raw, "artworkUrl100") # Undefined
  THEN C12_Upgrade(Get(raw, "artworkUrl100"), S_100x100)
  ELSE IF Get(raw, "artworkUrl60") # Undefined
  THEN C12_Upgrade(Get(raw, "artworkUrl60"), S_60x60)
  ELSE IF Get(raw, "artworkUrl30") # Undefined
  THEN C12_Upgrade(Get(raw, "artworkUrl30"), S_30x30)
  ELSE Null

\* the same with only non-empty strings counting as present, and the raw
\* 100x100 value (undefined when the record has none) when there is none
C12_Expected(raw) ==
  IF C12_Usable(Get(raw, "artworkUrl100"))
  THEN C12_Upgrade(Get(raw, "artworkUrl100"), S_100x100)
  ELSE IF C12_Usable(Get(raw, "artworkUrl60"))
  THEN C12_Upgrade(Get(raw, "artworkUrl60"), S_60x60)
  ELSE IF C12_Usable(Get(raw, "artworkUrl30"))
  THEN C12_Upgrade(Get(raw, "artworkUrl30"), S_30x30)
  ELSE Get(raw, "artworkUrl100")

C13_Present(v) == v.t = "number"

C13_Stated(raw) ==
  IF C13_Present(Get(raw, "trackPrice"))
  THEN Str(NumToString(Get(raw, "trackPrice").n))
  ELSE IF C13_Present(Get(raw, "collectionPrice"))
  THEN Str(NumToString(Get(raw, "collectionPrice").n))
  ELSE Str(S_NA)

\* C13: formattedPrice is the track price as a string whenever the record
\* has a track price, a price of 0 included; else the collection price as
\* a string whenever the record has one; and "N/A" only when it has
\* neither.
C13_PriceAsStated ==
  \A i \in Records : SentItems[i].f.formattedPrice = C13_Stated(RawItems[i])

\* an id the record carries, 0 included
C14_Present(v) == v.t = "number"

\* an id the normalizer takes: a number other than 0
C14_Usable(v) == v.t = "number" /\ v.n # 0

C14_Fallbacks == {Num(n) : n \in Times}

\* C14 as stated: uniqueId is the track id if the record has one, else the
\* collection id, else the artist id, and a time reading only when the
\* record has none of the three.
C14_IdAsStated ==
  \A i \in Records :
     LET raw == RawItems[i]
         uniqueId == SentItems[i].f.uniqueId
     IN IF C14_Present(Get(raw, "trackId")) THEN uniqueId = Get(raw, "trackId")
        ELSE IF C14_Present(Get(raw, "collectionId"))
        THEN uniqueId = Get(raw, "collectionId")
        ELSE IF C14_Present(Get(raw, "artistId")) THEN uniqueId = Get(raw, "artistId")
        ELSE uniqueId \in C14_Fallbacks

\* C14, amended: every item sent carries a uniqueId, which is the
\* record's track id if it is a number other than 0, else its collection id
\* if that is one, else its artist id if that is one, and a time reading
\* only when none of the three is a number other than 0.
C14_UniqueIdPresent ==
  \A i \in Records :
     LET raw == RawItems[i]
         uniqueId == SentItems[i].f.uniqueId
     IN /\ "uniqueId" \in DOMAIN SentItems[i].f
        /\ uniqueId.t = "number"
        /\ IF C14_Usable(Get(raw, "trackId")) THEN uniqueId = Get(raw, "trackId")
           ELSE IF C14_Usable(Get(raw, "collectionId"))
           THEN uniqueId = Get(raw, "collectionId")
           ELSE IF C14_Usable(Get(raw, "artistId")) THEN uniqueId = Get(raw, "artistId")
           ELSE uniqueId \in C14_Fallbacks

\* a record with no id at all is sent with a time reading
C14_Witness ==
  /\ HasRecords
  /\ RawItems = <<Obj([trackName |-> Str(S_X)])>>
  /\ SentItems[1].f.uniqueId \in C14_Fallbacks

\* C15: resultCount of the response is the upstream resultCount unchanged,
\* 0 when the body has none; searchInfo.totalResults equals it and
\* searchInfo.hasResults is true exactly when it is greater than 0,
\* whatever results the body carries.
C15_CountPassedThrough ==
  Normalized =>
    LET upstreamCount == Get(upstream.data, "resultCount")
        data == response.data
    IN /\ data.resultCount =
            (IF upstreamCount \in {Undefined, Null} THEN Num(0) ELSE upstreamCount)
       /\ data.searchInfo.totalResults = data.resultCount
       /\ data.searchInfo.hasResults = (data.resultCount.n > 0)

\* a body announcing 7 results and carrying 1 is answered with 7
C15_Witness ==
  /\ Normalized
  /\ Get(upstream.data, "resultCount") = Num(7)
  /\ Get(upstream.data, "results") = Arr(<<ScenarioItem>>)
  /\ response.data.resultCount = Num(7)
  /\ response.data.searchInfo.totalResults = Num(7)
  /\ response.data.searchInfo.hasResults

\* item is what the normalizer makes of the record raw: the record's own
\* fields unchanged, and the six derived fields computed from that record
C16_DerivedFrom(item, raw) ==
  /\ DOMAIN item.f = (DOMAIN raw.f) \cup DerivedKeys
  /\ \A k \in (DOMAIN raw.f) \ DerivedKeys : item.f[k] = raw.f[k]
  /\ item.f.artworkUrl = ArtworkUrl(raw)
  /\ item.f.releaseDate = ReleaseDate(raw)
  /\ item.f.formattedPrice = FormattedPrice(raw)
  /\ item.f.mediaType = MediaType(raw)
  /\ item.f.primaryGenre = PrimaryGenre(raw)
  /\ \E now \in Times : item.f.uniqueId = UniqueId(raw, now)

\* C16: the results sent have one item per upstream record, in upstream
\* order: item i is derived from record i, nothing is dropped, duplicated
\* or moved.
C16_OneItemPerRecordInOrder ==
  Normalized =>
    /\ Len(SentItems) = (IF HasRecords THEN Len(RawItems) ELSE 0)
    /\ \A i \in Records : C16_DerivedFrom(SentItems[i], RawItems[i])

\* two different records are sent in the order they came
C16_Witness ==
  /\ HasRecords
  /\ RawItems = <<Obj([artistName |-> Str(S_X)]), ScenarioItem>>
  /\ Len(SentItems) = 2
  /\ "trackId" \notin DOMAIN SentItems[1].f
  /\ SentItems[2].f.trackId = Num(42)

\* the raw date parses
C17_Parses(v) == v.t = "string" /\ ~DateParse(v.s).nan

\* C17: releaseDate is a locale date string when the raw date parses and
\* null otherwise; a record without a date or with a date that does not
\* parse is sent with null.
C17_UnparseableDateIsNull ==
  \A i \in Records :
     LET raw == Get(RawItems[i], "releaseDate")
     IN IF C17_Parses(raw)
        THEN SentItems[i].f.releaseDate = ToLocaleDateString(raw)
        ELSE SentItems[i].f.releaseDate = Null

\* C18: an answer that is an object with an array of results is answered
\* 200 with one item per record, whatever shape a record or one of its
\* fields has.
C18_DegradesFieldByField ==
  (upstream.t = "resolved" /\ sent = 1 /\ Get(upstream.data, "results").t = "array") =>
    /\ response.status = 200
    /\ Len(response.data.results) = Len(RawItems)

\* C19: a request that passed validation causes exactly one axios call:
\* the call counter only ever goes from 0 to 1, in the step from Building
\* to Fetching; once the request has been fetched, and when a valid request
\* has been answered, exactly one call has been issued, whether it
\* resolved, failed or timed out; and a call is pending exactly while the
\* request is in Fetching.
C19_SingleUpstreamCall ==
  /\ [](/\ upstreamCalls <= 1
        /\ (upstream.t = "pending") <=> (pc = "Fetching")
        /\ pc \in {"Fetching", "Normalizing", "Responding"} => upstreamCalls = 1
        /\ upstream.t \in {"pending", "resolved", "rejected"} => upstreamCalls = 1
        /\ (Validated /\ validation.isValid /\ pc \in Terminal) =>
             (upstreamCalls = 1 /\ sent = 1))
  /\ [][upstreamCalls' # upstreamCalls =>
          \/ /\ upstreamCalls = 0 /\ upstreamCalls' = 1
             /\ pc = "Building" /\ pc' = "Fetching"
             /\ Validated /\ validation.isValid
          \/ pc \in Terminal /\ pc' = "Idle"]_vars

\* the call timed out and the request was answered without a second call
C19_Witness ==
  /\ pc = "UpstreamError"
  /\ upstream.t = "rejected"
  /\ upstream.error.code = "ECONNABORTED"
  /\ upstreamCalls = 1
  /\ sent = 1

\* the call failed without an answer from upstream: a time-out or a
\* connection failure
C20_NoAnswer == upstream.t = "rejected" /\ upstream.error.status = 0

\* the call failed with one of the two codes of a time-out
C20_TimedOut ==
  upstream.t = "rejected" /\ upstream.error.code \in {"ECONNABORTED", "ETIMEDOUT"}

\* C20 as stated: a call that fails with a connection or time-out failure
\* is answered 408 "Request Timeout".
C20_TimeoutAsStated ==
  C20_NoAnswer => (response.status = 408 /\ response.error = "Request Timeout")

\* C20, amended: a call that fails with the code ECONNABORTED (the 10 s
\* time-out firing) or ETIMEDOUT is answered 408 "Request Timeout",
\* whatever its message and the deployment mode, with no details; a failure
\* with any other code and no answer from upstream is answered 500.
C20_TimeoutMapping ==
  /\ C20_TimedOut =>
       response = [status |-> 408, error |-> "Request Timeout",
                   message |-> "iTunes API request timed out. Please try again."]
  /\ (C20_NoAnswer /\ ~C20_TimedOut) =>
       (response.status = 500 /\ response.error = "Search Failed")

\* a connect time-out in development mode is answered 408
C20_Witness ==
  /\ pc = "UpstreamError"
  /\ nodeEnv = "development"
  /\ upstream.t = "rejected"
  /\ upstream.error.code = "ETIMEDOUT"
  /\ response.status = 408
  /\ response.error = "Request Timeout"

\* the upstream call was answered with the HTTP status s
C21_Answered(s) == upstream.t = "rejected" /\ upstream.error.status = s

\* C21: an upstream answer 403 is answered 503 "Service Unavailable",
\* never 400 or 500, and the server goes on: the only step after the answer
\* takes the server back to Idle, where the next request is received, in
\* the same deployment mode.
C21_ForbiddenIsUnavailable ==
  /\ [](C21_Answered(403) =>
          /\ pc = "UpstreamError"
          /\ response.status = 503
          /\ response.error = "Service Unavailable"
          /\ sent = 1)
  /\ [][C21_Answered(403) =>
          (pc' = "Idle" /\ response' = None /\ upstream' = None /\ sent' = 0
           /\ nodeEnv' = nodeEnv)]_vars

C21_Witness ==
  /\ pc = "UpstreamError"
  /\ C21_Answered(403)
  /\ response.status = 503
  /\ response.error = "Service Unavailable"

\* the upstream call was answered with a 4xx status other than 403
C22_ClientError ==
  /\ upstream.t = "rejected"
  /\ upstream.error.status \in 400..499
  /\ upstream.error.status # 403

\* C22: an upstream answer 4xx other than 403 is answered 400 "Bad
\* Request" with no errors list, while a validation failure is answered 400
\* "Invalid Parameters" with its errors list: the two differ in the error
\* field and in the presence of errors.
C22_UpstreamClientErrorIsBadRequest ==
  /\ C22_ClientError =>
       /\ response.status = 400
       /\ response.error = "Bad Request"
       /\ "errors" \notin DOMAIN response
  /\ pc = "Invalid" =>
       /\ response.status = 400
       /\ response.error = "Invalid Parameters"
       /\ "errors" \in DOMAIN response
       /\ response.errors # <<>>

C22_Witness ==
  /\ pc = "UpstreamError"
  /\ C21_Answered(404)
  /\ response.status = 400
  /\ response.error = "Bad Request"

\* the request failed with something that is neither a time-out code, nor
\* an upstream 403, nor another upstream 4xx: an upstream 5xx, a failure
\* without an answer, or an exception thrown by the handler's own code
C23_OtherFailure ==
  /\ pc = "UpstreamError"
  /\ \/ upstream.t \in {"none", "resolved"}
     \/ /\ upstream.t = "rejected"
        /\ upstream.error.code \notin {"ECONNABORTED", "ETIMEDOUT"}
        /\ upstream.error.status \notin 400..499

\* the deployment modes that are not production
C23_NotProduction == nodeEnv # "production"

\* C23 as stated: every other failure is answered 500 "Search Failed",
\* with the error detail in every deployment mode that is not production
\* and without it in production.
C23_DetailsAsStated ==
  C23_OtherFailure =>
    /\ response.status = 500
    /\ response.error = "Search Failed"
    /\ ("details" \in DOMAIN response) <=> C23_NotProduction

\* C23, amended: every other failure is answered 500 "Search Failed"; the
\* response carries the error detail exactly when NODE_ENV is
\* "development", and carries none in production nor when NODE_ENV is not
\* set.
C23_OtherFailuresAre500 ==
  C23_OtherFailure =>
    /\ response.status = 500
    /\ response.error = "Search Failed"
    /\ ("details" \in DOMAIN response) <=> (nodeEnv = "development")

\* a normalization exception in development mode is answered 500 with
\* the detail
C23_Witness ==
  /\ pc = "UpstreamError"
  /\ upstream.t = "resolved"
  /\ nodeEnv = "development"
  /\ response.status = 500
  /\ response.details = "TypeError"

\* the handler runs to its end once it is invoked, and the axios call
\* settles: it resolves, rejects, or its 10 s time-out fires
FairQueries ==
  ScenarioQueries
  \cup { Query(Undefined, Undefined, Undefined, Undefined, Undefined, Undefined),
         Query(Arr(<<>>), Undefined, Undefined, Undefined, Undefined, Undefined),
         Query(Str(S_a), Str(S_bogus), Str(<<"0">>), Undefined, Undefined, Undefined) }

FairBodies ==
  InputBodies
  \cup {Obj([resultCount |-> Num(1), results |-> Arr(<<i>>)]) : i \in {ScenarioItem, Null}}

FairNext == Step(FairQueries, FairBodies, UpstreamErrors)

FairSpec == Init /\ [][FairNext]_vars /\ WF_vars(FairNext)

C27_Statuses == {200, 400, 408, 503, 500}

\* C27: a request that reached the handler gets exactly one response on
\* every path: none is sent before the request reaches Invalid,
\* UpstreamError or Responding, exactly one has been sent there, its status
\* is one of 200, 400, 408, 503 and 500, a response is sent in no other
\* step, and a request in hand, whether just received, waiting for its
\* upstream call or with the call settled, does get its response.
C27_ExactlyOneResponse ==
  /\ [](/\ sent <= 1
        /\ pc \in Terminal =>
             (sent = 1 /\ response # None /\ response.status \in C27_Statuses)
        /\ pc \notin Terminal => (sent = 0 /\ response = None))
  /\ [][sent' # sent =>
          \/ sent = 0 /\ sent' = 1 /\ pc \notin Terminal /\ pc' \in Terminal
          \/ pc \in Terminal /\ pc' = "Idle"]_vars
  /\ (pc \in {"Received", "Validating", "Building", "Fetching", "Normalizing"})
       ~> (sent = 1)

\* a request whose upstream call timed out has its one response
C27_Witness ==
  /\ pc = "UpstreamError"
  /\ upstream.t = "rejected"
  /\ upstream.error.message = "timeout of 10000ms exceeded"
  /\ sent = 1
  /\ response.status = 408

\* the responses a request with the query q and the upstream outcome up
\* gets when it is served alone
C24_Alone(q, up) ==
  LET v == validateSearchParams(q)
  IN IF v.t = "throw" THEN {ErrorResponse(TypeError, nodeEnv)}
     ELSE IF ~v.isValid THEN {InvalidResponse(v)}
     ELSE IF buildItunesUrl(q).t = "throw" THEN {ErrorResponse(TypeError, nodeEnv)}
     ELSE IF up.t = "rejected" THEN {ErrorResponse(up.error, nodeEnv)}
     ELSE IF up.t = "resolved" THEN SuccessResponses(q, up.data)
     ELSE {}

\* C24: requests in flight at once are isolated: the response of every
\* request is one it gets when served alone with its own parameters and its
\* own upstream outcome, the URL fetched for it is built from its own
\* parameters, and every step changes the locals of one request only, so a
\* failure of one request changes nothing of another.
C24_Isolated ==
  /\ [](\A r \in Requests :
          /\ inflight[r].pc \in Terminal =>
               inflight[r].response \in C24_Alone(inflight[r].query, inflight[r].upstream)
          /\ inflight[r].pc \notin Terminal => inflight[r].response = None
          /\ inflight[r].upstream.t = "pending" =>
               inflight[r].upstream.url = buildItunesUrl(inflight[r].query))
  /\ [][\E r \in Requests : \A s \in Requests \ {r} : inflight'[s] = inflight[s]]_vars

\* one request is answered 408 while another, received before that and
\* still in hand, has been answered 200
C24_Witness ==
  /\ inflight[1].pc = "UpstreamError"
  /\ inflight[1].response.status = 408
  /\ inflight[2].pc = "Responding"
  /\ inflight[2].response.status = 200
  /\ inflight[2].response.data.results[1].f.uniqueId = Num(42)

\* the words of the Authorization header, none for a missing header
C28_Words(h) == IF h = Undefined THEN <<>> ELSE Split(h.s)

\* the request carries a token: the header has a second word and it is
\* not empty
C28_HasToken(h) == Len(C28_Words(h)) >= 2 /\ C28_Words(h)[2] # <<>>

\* the request carries a token and its verification succeeds
C28_Verified(h) == C28_HasToken(h) /\ JwtVerify(C28_Words(h)[2]).ok

\* C28: once authenticateToken has run, a request with no token, an
\* expired token or an invalid token has been answered 401 by it and has
\* reached neither searchLimiter nor parameter validation nor the upstream
\* call; next() has been called exactly when the verification of the token
\* succeeded, and then authenticateToken has sent nothing itself.
C28_Unauthenticated401 ==
  auth.pc \notin {"Idle", "authenticateToken"} =>
    /\ ~C28_Verified(auth.header) =>
         /\ auth.pc = "done"
         /\ auth.response.status = 401
         /\ auth.sent = 1
         /\ auth.nextCalls = 0
         /\ auth.reached = {}
    /\ (auth.nextCalls = 1) <=> C28_Verified(auth.header)
    /\ auth.nextCalls <= 1
    /\ auth.nextCalls = 1 => auth.sent = 0
    /\ auth.reached # {} => C28_Verified(auth.header)

\* a request with an expired token has been answered 401 "Token Expired"
C28_Witness ==
  /\ auth.pc = "done"
  /\ auth.header = Str(<<"b", " ", "e">>)
  /\ auth.response = Unauthorized("Token Expired",
                       "Your session has expired. Please request a new token.")
  /\ auth.nextCalls = 0
  /\ auth.reached = {}

C29_Digits == {"0", "1", "2", "3", "4", "5", "6", "7", "8", "9"}

\* the id is a non-empty string of decimal digits
C29_Numeric(id) == id.s # <<>> /\ \A i \in 1..Len(id.s) : id.s[i] \in C29_Digits

\* the resultCount of the upstream answer, 0 when it has none
C29_Count(data) ==
  IF Get(data, "resultCount").t = "number" THEN Get(data, "resultCount").n ELSE 0

\* the normalizer throws on the upstream answer
C29_Throws(data) ==
  LET n == IF Get(data, "results").t = "array"
           THEN Len(Get(data, "results").items) ELSE 0
  IN processItunesResponse(data, [i \in 1..n |-> 0], 0).t = "throw"

\* C29: a lookup whose id is not a non-empty string of decimal digits is
\* answered 400 "Invalid ID" and no upstream call is issued for it; for any
\* other id one call is issued, and the request is answered 500 "Lookup
\* Failed" when the call fails (time-out and upstream 4xx included) or the
\* answer makes the normalizer throw, else 404 "Not Found" when the
\* resultCount of the answer is 0 and 200 when it is greater than 0.  A
\* request has no response before it is done and exactly one then.
C29_LookupOutcomes ==
  /\ lookup.pc \in {"Idle", "Received", "Fetching", "Normalizing"} =>
       (lookup.sent = 0 /\ lookup.response = None)
  /\ lookup.upstreamCalls <= 1
  /\ lookup.pc \in {"Fetching", "Normalizing"} =>
       (C29_Numeric(lookup.itemId) /\ lookup.upstreamCalls = 1)
  /\ lookup.pc = "Done" =>
       /\ lookup.sent = 1
       /\ IF ~C29_Numeric(lookup.itemId)
          THEN lookup.response = InvalidIdResponse /\ lookup.upstreamCalls = 0
                 /\ lookup.upstream = None
          ELSE /\ lookup.upstreamCalls = 1
               /\ IF lookup.upstream.t = "rejected" \/ C29_Throws(lookup.upstream.data)
                  THEN lookup.response = LookupFailedResponse
                  ELSE IF C29_Count(lookup.upstream.data) = 0
                  THEN (lookup.response.status = 404 /\ lookup.response.error = "Not Found")
                  ELSE IF C29_Count(lookup.upstream.data) > 0
                  THEN (lookup.response.status = 200
                        /\ lookup.response.data.resultCount =
                             Get(lookup.upstream.data, "resultCount"))
                  ELSE TRUE

\* an id with a digit and a letter has been answered 400 with no call
C29_Witness ==
  /\ lookup.pc = "Done"
  /\ lookup.itemId = Str(<<"7", "a">>)
  /\ lookup.response.status = 400
  /\ lookup.response.error = "Invalid ID"
  /\ lookup.upstreamCalls = 0

\* C26: the favorites never hold two items with the same uniqueId;
\* removeFromFavorites(id) takes out every item with that id and keeps the
\* others in their order; adding an id that is present changes nothing
C26_Id(item) == Get(item, "uniqueId")
C26_Kept(favorites, id) == {i \in 1..Len(favorites) : C26_Id(favorites[i]) # id}
C26_Removed(before, id, after) ==
  /\ Len(after) = Cardinality(C26_Kept(before, id))
  /\ \A i \in C26_Kept(before, id) :
       after[Cardinality({j \in C26_Kept(before, id) : j <= i})] = before[i]
C26_Present(favorites, id) == \E i \in 1..Len(favorites) : C26_Id(favorites[i]) = id
C26_FavoritesUnique ==
  /\ [](\A i, j \in 1..Len(ui.favorites) :
          i # j => C26_Id(ui.favorites[i]) # C26_Id(ui.favorites[j]))
  /\ [][ui'.lastOp # None /\ ui'.lastOp.op = "remove"
          => C26_Removed(ui.favorites, ui'.lastOp.id, ui'.favorites)]_vars
  /\ [][ui'.lastOp # None /\ ui'.lastOp.op = "add"
          => ui'.favorites = IF C26_Present(ui.favorites, C26_Id(ui'.lastOp.item))
                             THEN ui.favorites
                             ELSE Append(ui.favorites, ui'.lastOp.item)]_vars
\* an item was offered whose id is held by another favorite, and the list
\* of three kept its items
C26_Witness ==
  /\ ui.lastOp # None
  /\ ui.lastOp.op = "add"
  /\ Len(ui.favorites) = 3
  /\ C26_Present(ui.favorites, C26_Id(ui.lastOp.item))
  /\ \A i \in 1..Len(ui.favorites) : ui.favorites[i] # ui.lastOp.item
\* C25: when the backend answers the search of a non-empty term with 200
\* and a non-empty result list, searchResults ends holding those items and
\* no error message is set
C25_Answered200 ==
  /\ ui.last.t = "resolved"
  /\ ui.last.response.status = 200
  /\ ui.last.response.data.data.results # <<>>
  /\ Trim(ui.searchTerm) # <<>>
  /\ ~ui.loading
C25_ResultsShown ==
  C25_Answered200 =>
    /\ ui.searchResults = ui.last.response.data.data.results
    /\ ui.error = Null

\* C30: handleSearch of a blank term sets an error and issues no request;
\* otherwise loading is true exactly while the backend call has not
\* settled, a failure clears searchResults and sets an error, and no
\* second search is issued while loading is true
C30_Blank(term) == \A i \in 1..Len(term) : term[i] \in {" ", "\t", "\n"}
C30_LoadingBracketsTheCall ==
  /\ [](\A term \in UiTerms, media \in UiMediaTypes :
          C30_Blank(term) =>
            /\ HandleSearch(ui, term, media).error # Null
            /\ HandleSearch(ui, term, media).pending = ui.pending
            /\ HandleSearch(ui, term, media).loading = ui.loading)
  /\ [](ui.loading <=> ui.pending # <<>>)
  /\ [](Len(ui.pending) <= 1)
  /\ [][Len(ui'.pending) > Len(ui.pending) => ~ui.loading /\ ui'.loading]_vars
  /\ [][Len(ui'.pending) < Len(ui.pending) =>
          /\ ui.loading /\ ~ui'.loading
          /\ ui'.last.t = "rejected" => ui'.searchResults = <<>> /\ ui'.error # Null]_vars
\* a search is under way while the form holds a term that could be
\* submitted
C30_Witness ==
  /\ ui.loading
  /\ Len(ui.pending) = 1
  /\ Trim(ui.barTerm) # <<>>
  /\ ui.error = Null
====
